---- MODULE Spec2Model ----
(***************************************************************************)
(* Driver Telemetry analytics engine: the versioned TTL cache layer, the   *)
(* analyzer entry points that read through it, and the changelog metrics   *)
(* pipeline.                                                               *)
(*                                                                         *)
(*   Spec          the cache layer API (getCached, setCache, invalidation) *)
(*                 over a persistent store that may fail, with a clock.    *)
(*   SpecAnalyzers the analyzer entry points on top of the cache layer.    *)
(*   SpecMetrics   calculateIssueMetrics on one issue's changelog.         *)
(*   SpecBatch     getUserIssuesWithMetrics over a batch of issues.        *)
(*   SpecLoad      the load analyzer's calculations on given inputs.       *)
(*   SpecBurnout   the burnout analyzer's calculations on given inputs.    *)
(*   SpecSimulation the sprint predictor's Monte Carlo runs on given inputs. *)
(*   SpecCalculations the collaboration, strength, timing and at-risk      *)
(*                 calculations and buildCacheKey on given inputs.         *)
(*   SpecConcurrent concurrent getCached and setCache calls on one key.    *)
(*   SpecParameters the analyzers called with their optional parameters.   *)
(*   SpecStatus    getCurrentStatus on top of the analyzers.               *)
(***************************************************************************)
EXTENDS Integers, Sequences, FiniteSets, TLC

VARIABLES
    store,      \* persistent store: storage key (string) -> CacheEntry
    now,        \* wall clock, milliseconds (new Date().getTime())
    last,       \* the most recent cache-layer call as its caller saw it
    written,    \* history: storage key -> the last completed setCache on it
                \* that no later write or invalidation attempt has followed
    subject,    \* the analyzer entry point the presentation layer invokes
    lastCall,   \* the most recent analyzer call as its caller saw it
    changelogData,  \* what the issue source returns for one issue's changelog
    metricsCall,    \* the most recent calculateIssueMetrics call and its outcome
    jira,       \* what the issue source returns to getUserIssuesWithMetrics
    tasks,      \* Promise.all: per fetched issue, "pending" or its settled value
    settled,    \* Promise.all: the indexes of the tasks in order of completion
    batch,      \* getUserIssuesWithMetrics: position and returned value
    calc        \* the most recent call of a calculation: its inputs and value

vars == <<store, now, last, written, subject, lastCall,
          changelogData, metricsCall, jira, tasks, settled, batch, calc>>

apiVars == <<last, written>>

analyzerVars == <<subject, lastCall>>

metricsVars == <<changelogData, metricsCall>>

batchVars == <<jira, tasks, settled, batch>>

cacheVars == <<store, now>>

calcVars == <<calc>>

(***************************************************************************)
(* Bounds of the model.                                                    *)
(***************************************************************************)
MaxTicks == 3            \* the clock advances at most this many steps

TtlHours == {1, 2}       \* ttlHours arguments callers pass in the model

(***************************************************************************)
(* models/cache.ts                                                         *)
(***************************************************************************)
CACHE_VERSION == "1.2.0"

\* A version string written by a deployment before the last bump.
PREVIOUS_VERSION == "1.1.0"

MsPerHour == 60 * 60 * 1000

\* CacheKey: namespace, accountId and an optional suffix ("" when not given).
CacheKeys ==
    { [namespace |-> "timing", accountId |-> "u1", suffix |-> ""],
      [namespace |-> "load",   accountId |-> "u1", suffix |-> "q"] }

NAMESPACES ==
    { "timing", "strengths", "collaboration", "load", "trends",
      "status", "burnout", "pitcrew", "predictions" }

buildCacheKey(key) ==
    LET parts == "user" \o ":" \o key.accountId \o ":" \o key.namespace
    IN  IF key.suffix # "" THEN parts \o ":" \o key.suffix ELSE parts

CacheEntry(data, lastUpdated, ttlHours, version) ==
    [data |-> data, lastUpdated |-> lastUpdated,
     ttlHours |-> ttlHours, version |-> version]

(***************************************************************************)
(* The persistent store (external collaborator): get / set / delete on one *)
(* key, each of which either takes effect or fails without effect.         *)
(***************************************************************************)
StorageDelete(st, k) == [x \in (DOMAIN st) \ {k} |-> st[x]]

StorageSet(st, k, e) == [x \in (DOMAIN st) \cup {k} |-> IF x = k THEN e ELSE st[x]]

NullRet == [kind |-> "null"]

ValueRet(d) == [kind |-> "value", data |-> d]

(***************************************************************************)
(* Faulty variants of getCached, used to show that the properties below    *)
(* depend on the code: expiry one step early, no version check, and an     *)
(* error of storage.delete escaping to the caller.                         *)
(***************************************************************************)
getCached_ExpiresAtTtl(st, key, ttlHours, t, getFails, deleteFails) ==
    LET cacheKey == buildCacheKey(key)
    IN  IF getFails \/ cacheKey \notin DOMAIN st
        THEN [store |-> st, ret |-> NullRet, threw |-> FALSE]
        ELSE LET entry == st[cacheKey]
             IN  IF entry.version # CACHE_VERSION
                 THEN [store |-> IF deleteFails THEN st ELSE StorageDelete(st, cacheKey),
                       ret |-> NullRet, threw |-> FALSE]
                 ELSE IF t - entry.lastUpdated >= ttlHours * MsPerHour
                 THEN [store |-> st, ret |-> NullRet, threw |-> FALSE]
                 ELSE [store |-> st, ret |-> ValueRet(entry.data), threw |-> FALSE]

getCached_NoVersionCheck(st, key, ttlHours, t, getFails, deleteFails) ==
    LET cacheKey == buildCacheKey(key)
    IN  IF getFails \/ cacheKey \notin DOMAIN st
        THEN [store |-> st, ret |-> NullRet, threw |-> FALSE]
        ELSE LET entry == st[cacheKey]
             IN  IF t - entry.lastUpdated > ttlHours * MsPerHour
                 THEN [store |-> st, ret |-> NullRet, threw |-> FALSE]
                 ELSE [store |-> st, ret |-> ValueRet(entry.data), threw |-> FALSE]

getCached_DeleteErrorEscapes(st, key, ttlHours, t, getFails, deleteFails) ==
    LET cacheKey == buildCacheKey(key)
    IN  IF getFails \/ cacheKey \notin DOMAIN st
        THEN [store |-> st, ret |-> NullRet, threw |-> FALSE]
        ELSE LET entry == st[cacheKey]
             IN  IF entry.version # CACHE_VERSION
                 THEN IF deleteFails
                      THEN [store |-> st, ret |-> NullRet, threw |-> TRUE]
                      ELSE [store |-> StorageDelete(st, cacheKey),
                            ret |-> NullRet, threw |-> FALSE]
                 ELSE IF t - entry.lastUpdated > ttlHours * MsPerHour
                 THEN [store |-> st, ret |-> NullRet, threw |-> FALSE]
                 ELSE [store |-> st, ret |-> ValueRet(entry.data), threw |-> FALSE]

(***************************************************************************)
(* data/cache.ts getCached: the store after the call, what the caller gets *)
(* back, and whether an error escaped to the caller.                       *)
(***************************************************************************)
getCached(st, key, ttlHours, t, getFails, deleteFails) ==
    LET cacheKey == buildCacheKey(key)
    IN  IF getFails
        THEN [store |-> st, ret |-> NullRet, threw |-> FALSE]
        ELSE IF cacheKey \notin DOMAIN st
        THEN [store |-> st, ret |-> NullRet, threw |-> FALSE]
        ELSE LET entry == st[cacheKey]
                 age == t - entry.lastUpdated
                 maxAge == ttlHours * MsPerHour
             IN  IF entry.version # CACHE_VERSION
                 THEN IF deleteFails
                      THEN [store |-> st, ret |-> NullRet, threw |-> FALSE]
                      ELSE [store |-> StorageDelete(st, cacheKey),
                            ret |-> NullRet, threw |-> FALSE]
                 ELSE IF age > maxAge
                 THEN [store |-> st, ret |-> NullRet, threw |-> FALSE]
                 ELSE [store |-> st, ret |-> ValueRet(entry.data), threw |-> FALSE]

\* Faulty variant of setCache: the storage error is logged and swallowed.
setCache_SwallowsError(st, key, data, ttlHours, t, setFails) ==
    LET cacheKey == buildCacheKey(key)
        entry == CacheEntry(data, t, ttlHours, CACHE_VERSION)
    IN  IF setFails
        THEN [store |-> st, threw |-> FALSE]
        ELSE [store |-> StorageSet(st, cacheKey, entry), threw |-> FALSE]

(***************************************************************************)
(* data/cache.ts setCache                                                  *)
(***************************************************************************)
setCache(st, key, data, ttlHours, t, setFails) ==
    LET cacheKey == buildCacheKey(key)
        entry == CacheEntry(data, t, ttlHours, CACHE_VERSION)
    IN  IF setFails
        THEN [store |-> st, threw |-> TRUE]
        ELSE [store |-> StorageSet(st, cacheKey, entry), threw |-> FALSE]

(***************************************************************************)
(* data/cache.ts invalidateCache / invalidateAllUserCache                  *)
(***************************************************************************)
invalidateCache(st, key, deleteFails) ==
    IF deleteFails
    THEN [store |-> st, threw |-> FALSE]
    ELSE [store |-> StorageDelete(st, buildCacheKey(key)), threw |-> FALSE]

\* failing: the namespaces whose delete fails; every delete is attempted.
invalidateAllUserCache(st, accountId, failing) ==
    LET gone == { buildCacheKey([namespace |-> n, accountId |-> accountId, suffix |-> ""]) :
                    n \in NAMESPACES \ failing }
    IN  [store |-> [x \in (DOMAIN st) \ gone |-> st[x]], threw |-> FALSE]

(***************************************************************************)
(* Cache layer state machine.                                              *)
(***************************************************************************)
NoCall == [op |-> "none"]

NoWrite == [valid |-> FALSE]

StorageKeys == { buildCacheKey(k) : k \in CacheKeys }

Init ==
    LET InitStores ==
            LET \* Entries a previous deployment may have left behind at start-up.
                InitEntries ==
                    { CacheEntry(1, 0, 1, PREVIOUS_VERSION), CacheEntry(2, 0, 1, CACHE_VERSION) }
            IN
            UNION { [S -> InitEntries] : S \in SUBSET StorageKeys }
    IN
    /\ store \in InitStores
    /\ now = 0
    /\ last = NoCall
    /\ written = [k \in StorageKeys |-> NoWrite]
    /\ subject = "none"
    /\ lastCall = NoCall
    /\ changelogData = << >>
    /\ metricsCall = NoCall
    /\ jira = NoCall
    /\ tasks = << >>
    /\ settled = << >>
    /\ batch = NoCall
    /\ calc = NoCall

\* getCached reaches its storage.delete call: it read an entry of another version.
StaleVersionRead(st, k, getFails) ==
    /\ ~getFails
    /\ k \in DOMAIN st
    /\ st[k].version # CACHE_VERSION

Tick ==
    LET TickMs == MsPerHour       \* one clock step of the cache-layer model: one hour
    IN
    /\ now < MaxTicks * TickMs
    /\ now' = now + TickMs
    /\ UNCHANGED <<store, last, written, analyzerVars, metricsVars, batchVars, calcVars>>

GetCached ==
    \E key \in CacheKeys, ttlHours \in TtlHours, getFails \in BOOLEAN, deleteFails \in BOOLEAN :
        LET r == getCached(store, key, ttlHours, now, getFails, deleteFails)
            k == buildCacheKey(key)
        IN  /\ store' = r.store
            /\ last' = [op |-> "get", key |-> k, ttlHours |-> ttlHours, at |-> now,
                        getFailed |-> getFails,
                        deleteFailed |-> (deleteFails /\ StaleVersionRead(store, k, getFails)),
                        had |-> (k \in DOMAIN store),
                        seen |-> IF k \in DOMAIN store THEN store[k]
                                 ELSE CacheEntry(0, 0, 0, ""),
                        ret |-> r.ret, threw |-> r.threw]
            /\ UNCHANGED <<now, written, analyzerVars, metricsVars, batchVars, calcVars>>

SetCache ==
    \E key \in CacheKeys, data \in {1, 2}, ttlHours \in TtlHours, setFails \in BOOLEAN :
        LET r == setCache(store, key, data, ttlHours, now, setFails)
            k == buildCacheKey(key)
        IN  /\ store' = r.store
            /\ last' = [op |-> "set", key |-> k, ttlHours |-> ttlHours, at |-> now,
                        data |-> data, setFailed |-> setFails, threw |-> r.threw]
            /\ written' = [written EXCEPT ![k] =
                              IF r.threw THEN NoWrite
                              ELSE [valid |-> TRUE, data |-> data,
                                    ttlHours |-> ttlHours, at |-> now]]
            /\ UNCHANGED <<now, analyzerVars, metricsVars, batchVars, calcVars>>

InvalidateCache ==
    \E key \in CacheKeys, deleteFails \in BOOLEAN :
        LET r == invalidateCache(store, key, deleteFails)
            k == buildCacheKey(key)
        IN  /\ store' = r.store
            /\ last' = [op |-> "invalidate", key |-> k, at |-> now,
                        deleteFailed |-> deleteFails, threw |-> r.threw]
            /\ written' = [written EXCEPT ![k] = NoWrite]
            /\ UNCHANGED <<now, analyzerVars, metricsVars, batchVars, calcVars>>

InvalidateAllUserCache ==
    \E failing \in { {}, {"timing"}, NAMESPACES } :
        LET r == invalidateAllUserCache(store, "u1", failing)
        IN  /\ store' = r.store
            /\ last' = [op |-> "invalidateAll", accountId |-> "u1", at |-> now,
                        failing |-> failing, threw |-> r.threw]
            /\ written' = [k \in StorageKeys |-> NoWrite]
            /\ UNCHANGED <<now, analyzerVars, metricsVars, batchVars, calcVars>>

Next ==
    \/ Tick
    \/ GetCached
    \/ SetCache
    \/ InvalidateCache
    \/ InvalidateAllUserCache

Spec == Init /\ [][Next]_vars

(***************************************************************************)
(* Properties of the cache layer (checked under Spec).                     *)
(***************************************************************************)
\* The last call was a getCached on a key whose latest completed setCache
\* used the same ttlHours and has not been followed by a write or an
\* invalidation of that key.
GetFollowsSet ==
    /\ last.op = "get"
    /\ written[last.key].valid
    /\ written[last.key].ttlHours = last.ttlHours

ElapsedSinceSet == last.at - written[last.key].at

\* C1 (as stated): after setCache(k, d, h), a getCached(k, h) with no write or
\* invalidation of k in between returns d when at most h hours have elapsed
\* and returns absent when more than h hours have elapsed.
C1_GetAfterSetAsStated ==
    GetFollowsSet =>
        /\ (ElapsedSinceSet <= last.ttlHours * MsPerHour
                => last.ret = ValueRet(written[last.key].data))
        /\ (ElapsedSinceSet > last.ttlHours * MsPerHour => last.ret = NullRet)

\* C1 (amended): the same, for a getCached whose read of the store succeeds;
\* when the read fails getCached returns absent whatever the age.
C1_GetAfterSet ==
    GetFollowsSet =>
        /\ (~last.getFailed /\ ElapsedSinceSet <= last.ttlHours * MsPerHour
                => last.ret = ValueRet(written[last.key].data))
        /\ (ElapsedSinceSet > last.ttlHours * MsPerHour => last.ret = NullRet)
        /\ (last.getFailed => last.ret = NullRet)

\* C1 witness: a read exactly h hours after the set returns the payload.
C1_Witness ==
    /\ GetFollowsSet
    /\ ~last.getFailed
    /\ ElapsedSinceSet = last.ttlHours * MsPerHour
    /\ last.ret = ValueRet(written[last.key].data)

\* The last call was a getCached on a key that held an entry of another
\* version than CACHE_VERSION.
GetOnStaleVersion ==
    /\ last.op = "get"
    /\ last.had
    /\ last.seen.version # CACHE_VERSION

\* C2 (as stated): getCached on an entry of another version returns absent and
\* the entry is gone from the store afterwards.
C2_StaleVersionDeletedAsStated ==
    GetOnStaleVersion =>
        /\ last.ret = NullRet
        /\ last.key \notin DOMAIN store

\* C2 (amended): getCached on an entry of another version returns absent; the
\* entry is gone from the store afterwards when the store's get and delete
\* both succeeded, and is left in place when either failed.
C2_StaleVersionDeleted ==
    GetOnStaleVersion =>
        /\ last.ret = NullRet
        /\ (~last.getFailed /\ ~last.deleteFailed => last.key \notin DOMAIN store)
        /\ (last.getFailed \/ last.deleteFailed => last.key \in DOMAIN store)

\* C2 witness: a stale entry was read, reported absent and removed.
C2_Witness ==
    /\ GetOnStaleVersion
    /\ ~last.getFailed /\ ~last.deleteFailed
    /\ last.ret = NullRet
    /\ last.key \notin DOMAIN store

\* C3: getCached never raises: on a missing key, an entry of another version,
\* an expired entry and a failing storage.get or storage.delete it returns
\* absent.
C3_GetNeverThrows ==
    last.op = "get" =>
        /\ ~last.threw
        /\ (  \/ last.getFailed
              \/ last.deleteFailed
              \/ ~last.had
              \/ last.seen.version # CACHE_VERSION
              \/ last.at - last.seen.lastUpdated > last.ttlHours * MsPerHour
            => last.ret = NullRet)

\* C3 witness: storage.delete failed inside getCached and the caller got absent.
C3_Witness ==
    /\ last.op = "get"
    /\ last.deleteFailed
    /\ ~last.threw
    /\ last.ret = NullRet

\* C4 (as stated): getCached never returns an entry older than the ttlHours
\* the entry was stored with, whatever ttlHours argument it is called with.
C4_DeclaredTtlHonoured ==
    (last.op = "get" /\ last.ret.kind = "value") =>
        last.at - last.seen.lastUpdated <= last.seen.ttlHours * MsPerHour

\* C5: when storage.set fails, setCache raises the failure to its caller.
C5_SetFailurePropagates ==
    (last.op = "set" /\ last.setFailed) => last.threw

\* C5 witness: a setCache whose storage.set failed and which threw.
C5_Witness ==
    /\ last.op = "set"
    /\ last.setFailed
    /\ last.threw
    /\ written[last.key] = NoWrite

(***************************************************************************)
(* Burnout analyzer calculations: the risk factors detected from the       *)
(* weekly patterns, the load analysis and the timing analysis, the         *)
(* composite score and the risk level.                                     *)
(***************************************************************************)
RiskFactor(factor, severity, weeksAffected, impact) ==
    [factor |-> factor, severity |-> severity, weeksAffected |-> weeksAffected,
     impact |-> impact]

RECURSIVE SumSeq(_)
SumSeq(series) ==
    IF series = << >> THEN 0 ELSE Head(series) + SumSeq(Tail(series))

\* burnout analyzer detectRiskFactors
detectRiskFactors(weeklyData, loadAnalysis, inDangerZone) ==
    LET \* Factor 1: weeks with an overload estimate above 50.
        SustainedOverloadFactor ==
            LET weeksOverloaded ==
                    Cardinality({ w \in 1..Len(weeklyData.weeklyOverload) :
                                    weeklyData.weeklyOverload[w] > 50 })
            IN  IF weeksOverloaded >= 6
                THEN <<RiskFactor("sustained_overload", "critical", weeksOverloaded, 40)>>
                ELSE IF weeksOverloaded >= 4
                THEN <<RiskFactor("sustained_overload", "high", weeksOverloaded, 30)>>
                ELSE IF weeksOverloaded >= 2
                THEN <<RiskFactor("sustained_overload", "medium", weeksOverloaded, 20)>>
                ELSE << >>
        \* Factor 2: the current load status.
        CurrentOverloadFactor ==
            IF loadAnalysis.currentStatus = "critical"
            THEN <<RiskFactor("sustained_overload", "critical", 1, 25)>>
            ELSE IF loadAnalysis.currentStatus = "over"
            THEN <<RiskFactor("sustained_overload", "high", 1, 15)>>
            ELSE IF loadAnalysis.currentLoad >= 7
            THEN <<RiskFactor("sustained_overload", "low", 1, 5)>>
            ELSE << >>
        \* Factor 3: velocity of the last 4 weeks against the first 4 weeks.  The two
        \* averages are over 4 weeks each, so velocityChange < -p exactly when
        \* (recent - older) * 100 < -p * older for the two sums.
        DecliningVelocityFactor ==
            LET v == weeklyData.velocityTrend
                recent == SumSeq(SubSeq(v, Len(v) - 3, Len(v)))
                older == SumSeq(SubSeq(v, 1, 4))
                change100 == (recent - older) * 100
            IN  IF older > 0 /\ change100 < (0 - 20) * older
                THEN IF change100 < (0 - 40) * older
                     THEN <<RiskFactor("declining_velocity", "critical", 4, 30)>>
                     ELSE IF change100 < (0 - 30) * older
                     THEN <<RiskFactor("declining_velocity", "high", 4, 25)>>
                     ELSE <<RiskFactor("declining_velocity", "medium", 4, 15)>>
                ELSE << >>
        \* Factor 4: the current hour lies in the danger zone of the timing analysis.
        DangerHoursFactor ==
            IF inDangerZone THEN <<RiskFactor("danger_hours", "medium", 1, 10)>> ELSE << >>
        \* Factor 5: weeks with 8 or more completed issues.
        CrunchWeeksFactor ==
            LET \* Array.prototype.filter(...).length over a weekly series.
                CountWeeks(series, atLeast) ==
                    Cardinality({ w \in 1..Len(series) : series[w] >= atLeast })
                highVelocityWeeks == CountWeeks(weeklyData.velocityTrend, 8)
            IN  IF highVelocityWeeks >= 3
                THEN <<RiskFactor("sustained_overload", "medium", highVelocityWeeks, 15)>>
                ELSE << >>
    IN
    SustainedOverloadFactor \o CurrentOverloadFactor
        \o DecliningVelocityFactor \o DangerHoursFactor
        \o CrunchWeeksFactor

\* factors.reduce((sum, factor) => sum + factor.impact, 0)
TotalImpact(factors) == SumSeq([i \in 1..Len(factors) |-> factors[i].impact])

\* Faulty variant of calculateBurnoutScore: the sum is not capped.
calculateBurnoutScore_Uncapped(factors) ==
    IF Len(factors) = 0 THEN 0 ELSE TotalImpact(factors)

\* burnout analyzer calculateBurnoutScore
calculateBurnoutScore(factors) ==
    IF Len(factors) = 0 THEN 0
    ELSE IF TotalImpact(factors) <= 100 THEN TotalImpact(factors) ELSE 100

\* burnout analyzer determinRiskLevel
determinRiskLevel(score) ==
    IF score >= 70 THEN "critical"
    ELSE IF score >= 50 THEN "high"
    ELSE IF score >= 30 THEN "warning"
    ELSE "healthy"

BurnoutFields(riskFactors, burnoutScore, riskLevel) ==
    [riskFactors |-> riskFactors, burnoutScore |-> burnoutScore,
     riskLevel |-> riskLevel]

\* analyzeBurnoutRisk, lines 57-76: detect the factors, push the baseline
\* factor when there is none, score them and derive the level.
assessBurnoutRisk(weeklyData, loadAnalysis, inDangerZone) ==
    LET \* The factor pushed when none was detected.
        BaselineFactor == RiskFactor("sustained_overload", "low", 0, 5)
        detected == detectRiskFactors(weeklyData, loadAnalysis, inDangerZone)
        riskFactors == IF Len(detected) = 0 THEN <<BaselineFactor>> ELSE detected
        burnoutScore == calculateBurnoutScore(riskFactors)
    IN  BurnoutFields(riskFactors, burnoutScore, determinRiskLevel(burnoutScore))

CalmWeeks ==
    [weeklyOverload |-> [w \in 1..8 |-> 0], velocityTrend |-> [w \in 1..8 |-> 3]]

(***************************************************************************)
(* Analyzer entry points.  Each reads its result through the cache layer   *)
(* and, on a miss, fetches the subject's historical issues, computes and   *)
(* writes the result back.  env gives what the outside world does during   *)
(* the call: the size of the fetched history (n, 0 when the issue source   *)
(* fails), the number of active tickets (active), whether any fetched item *)
(* has a known cycle time (known), and which store operations fail.        *)
(***************************************************************************)
MaxAnalyzerTicks == 5     \* clock steps taken between analyzer calls

IssueCounts == {0, 4, 7, 12}

ActiveCounts == {3, 11}

\* n: issues of the last 84 or 90 days; n180: issues of the last 180 days.
Env(n, n180, active, known, getFails, deleteFails, setFails) ==
    [n |-> n, n180 |-> n180, active |-> active, known |-> known,
     getFails |-> getFails, deleteFails |-> deleteFails, setFails |-> setFails]

\* Environments of the analyzers that only fetch the 180-day history.
EnvsHistory ==
    { Env(0, n180, 3, TRUE, g, d, w) :
        n180 \in IssueCounts, g \in BOOLEAN, d \in BOOLEAN, w \in BOOLEAN }

\* The burnout analyzer runs two more analyzers inside its call; at most one
\* kind of store operation fails during such a call.  weekly: the weekly
\* patterns of the fetched issues; inDangerZone: the current hour lies in
\* the danger zone of the timing analysis, when that has one (here: in the
\* heavy weeks).
EnvsBurnout ==
    LET \* Eight weeks in which more issues were created than completed and the
        \* number of completed issues halved.
        HeavyWeeks ==
            [weeklyOverload |-> [w \in 1..8 |-> 100],
             velocityTrend |-> <<6, 6, 6, 6, 3, 3, 3, 3>>]
    IN
    { [weekly |-> w, inDangerZone |-> w = HeavyWeeks]
          @@ Env(p[1], p[2], active, TRUE, f = "get", f = "delete", f = "set") :
        p \in { q \in IssueCounts \X IssueCounts : q[1] = q[2] \/ q = <<4, 12>> },
        active \in ActiveCounts, f \in {"none", "get", "delete", "set"},
        w \in {HeavyWeeks} }

AnalyzerKey(ns) == [namespace |-> ns, accountId |-> "u1", suffix |-> ""]

\* utils/calculations.ts calculateConfidence
calculateConfidence(dataPoints) ==
    IF dataPoints >= 30 THEN "high"
    ELSE IF dataPoints >= 10 THEN "medium"
    ELSE "low"

\* The confidence tier each analyzer attaches to a computed analysis.
ConfidenceOf(ns, n) ==
    CASE ns = "collaboration" -> "low"
      [] ns = "pitcrew" -> IF n > 50 THEN "high" ELSE IF n > 25 THEN "medium" ELSE "low"
      [] ns \in {"burnout", "predictions"} ->
             IF n > 30 THEN "high" ELSE IF n > 15 THEN "medium" ELSE "low"
      [] OTHER -> calculateConfidence(n)

\* A computed analysis and the insufficient-data variant, reduced to the
\* uniform envelope: data points, confidence tier, time of computation.
Analysis(ns, n, t) ==
    [variant |-> "analysis", namespace |-> ns, dataPoints |-> n,
     confidence |-> ConfidenceOf(ns, n), lastUpdated |-> t]

createInsufficientDataResponse(ns, n, t) ==
    [variant |-> "insufficient", namespace |-> ns, dataPoints |-> n,
     confidence |-> "low", lastUpdated |-> t]

\* Faulty variant of determineLoadStatus: the optimal zone ends at 8.
determineLoadStatus_OptimalEndsEarly(currentLoad) ==
    IF currentLoad < 5 THEN "under"
    ELSE IF currentLoad >= 5 /\ currentLoad <= 8 THEN "optimal"
    ELSE IF currentLoad >= 9 /\ currentLoad <= 12 THEN "over"
    ELSE "critical"

\* load.ts determineLoadStatus
determineLoadStatus(currentLoad) ==
    IF currentLoad < 5 THEN "under"
    ELSE IF currentLoad >= 5 /\ currentLoad <= 9 THEN "optimal"
    ELSE IF currentLoad >= 10 /\ currentLoad <= 12 THEN "over"
    ELSE "critical"

LoadFields(currentLoad, currentStatus) ==
    [currentLoad |-> currentLoad, currentStatus |-> currentStatus]

\* The analysis r with its current-load fields set to lf.
WithLoad(r, lf) == [load |-> lf] @@ r

\* The burnout analysis r with its score fields set to bf.
WithBurnout(r, bf) == bf @@ r

NoResult == [variant |-> "none"]

\* What one analyzer call did: the store it leaves, what it returned (or
\* that it threw), whether it fetched the historical issues and the active
\* issues, and whether it wrote its result to the cache.
Outcome(st, result, threw, fetchedHistory, fetchedActive, wrote) ==
    [store |-> st, result |-> result, threw |-> threw,
     fetchedHistory |-> fetchedHistory, fetchedActive |-> fetchedActive,
     wrote |-> wrote]

\* Faulty variant of ReadThrough: the minimum sample size is not enforced.
ReadThrough_NoMinimum(ns, ttlHours, minIssues, n, st, t, env) ==
    LET key == AnalyzerKey(ns)
        c == getCached(st, key, ttlHours, t, env.getFails, env.deleteFails)
    IN  IF c.ret.kind = "value"
        THEN Outcome(c.store, c.ret.data, FALSE, FALSE, FALSE, FALSE)
        ELSE LET a == Analysis(ns, n, t)
                 w == setCache(c.store, key, a, ttlHours, t, env.setFails)
             IN  Outcome(w.store, IF w.threw THEN NoResult ELSE a,
                         w.threw, TRUE, FALSE, ~w.threw)

\* The shape shared by analyzeTimingPatterns, analyzeStrengthPatterns,
\* analyzeTrends, analyzeCollaborationPatterns and analyzePitCrewPatterns:
\* return the cached value when there is one; else fetch, and either return
\* the insufficient-data variant (not cached) or compute, cache and return.
ReadThrough(ns, ttlHours, minIssues, n, st, t, env) ==
    LET key == AnalyzerKey(ns)
        c == getCached(st, key, ttlHours, t, env.getFails, env.deleteFails)
    IN  IF c.ret.kind = "value"
        THEN Outcome(c.store, c.ret.data, FALSE, FALSE, FALSE, FALSE)
        ELSE IF n < minIssues
        THEN Outcome(c.store, createInsufficientDataResponse(ns, n, t),
                     FALSE, TRUE, FALSE, FALSE)
        ELSE LET a == Analysis(ns, n, t)
                 w == setCache(c.store, key, a, ttlHours, t, env.setFails)
             IN  Outcome(w.store, IF w.threw THEN NoResult ELSE a,
                         w.threw, TRUE, FALSE, ~w.threw)

analyzeTimingPatterns(st, t, env) == ReadThrough("timing", 24, 10, env.n180, st, t, env)

analyzeStrengthPatterns(st, t, env) == ReadThrough("strengths", 24, 10, env.n180, st, t, env)

analyzeTrends(st, t, env) == ReadThrough("trends", 24, 10, env.n180, st, t, env)

analyzeCollaborationPatterns(st, t, env) ==
    ReadThrough("collaboration", 24, 10, env.n180, st, t, env)

analyzePitCrewPatterns(st, t, env) == ReadThrough("pitcrew", 24, 10, env.n180, st, t, env)

\* Faulty variant of analyzeLoadPatterns: the insufficient-data result is
\* written to the cache like an analysis.
analyzeLoadPatterns_CachesInsufficient(st, t, env) ==
    LET key == AnalyzerKey("load")
        c == getCached(st, key, 24, t, env.getFails, env.deleteFails)
        live == LoadFields(env.active, determineLoadStatus(env.active))
        a == IF env.n180 < 10
             THEN WithLoad(createInsufficientDataResponse("load", env.n180, t),
                           LoadFields(0, "optimal"))
             ELSE WithLoad(Analysis("load", env.n180, t), live)
        w == setCache(c.store, key, a, 24, t, env.setFails)
    IN  IF c.ret.kind = "value"
        THEN Outcome(c.store, WithLoad(c.ret.data, live),
                     FALSE, FALSE, TRUE, FALSE)
        ELSE Outcome(w.store, IF w.threw THEN NoResult ELSE a,
                     w.threw, TRUE, env.n180 >= 10, ~w.threw)

\* load.ts analyzeLoadPatterns: a cached analysis is returned with its
\* current load refreshed from the active tickets.
analyzeLoadPatterns(st, t, env) ==
    LET key == AnalyzerKey("load")
        c == getCached(st, key, 24, t, env.getFails, env.deleteFails)
        live == LoadFields(env.active, determineLoadStatus(env.active))
    IN  IF c.ret.kind = "value"
        THEN Outcome(c.store, WithLoad(c.ret.data, live),
                     FALSE, FALSE, TRUE, FALSE)
        ELSE IF env.n180 < 10
        THEN Outcome(c.store,
                     WithLoad(createInsufficientDataResponse("load", env.n180, t),
                              LoadFields(0, "optimal")),
                     FALSE, TRUE, FALSE, FALSE)
        ELSE LET a == WithLoad(Analysis("load", env.n180, t), live)
                 w == setCache(c.store, key, a, 24, t, env.setFails)
             IN  Outcome(w.store, IF w.threw THEN NoResult ELSE a,
                         w.threw, TRUE, TRUE, ~w.threw)
\* predictions.ts predictSprintCompletion
predictSprintCompletion(st, t, env) ==
    LET key == AnalyzerKey("predictions")
        c == getCached(st, key, 1, t, env.getFails, env.deleteFails)
    IN  IF c.ret.kind = "value"
        THEN Outcome(c.store, c.ret.data, FALSE, FALSE, FALSE, FALSE)
        ELSE IF env.n < 5
        THEN Outcome(c.store, createInsufficientDataResponse("predictions", env.n, t),
                     FALSE, TRUE, TRUE, FALSE)
        ELSE IF ~env.known
        THEN Outcome(c.store, createInsufficientDataResponse("predictions", 0, t),
                     FALSE, TRUE, TRUE, FALSE)
        ELSE LET a == Analysis("predictions", env.n, t)
                 w == setCache(c.store, key, a, 1, t, env.setFails)
             IN  Outcome(w.store, IF w.threw THEN NoResult ELSE a,
                         w.threw, TRUE, TRUE, ~w.threw)

\* burnout analyzer analyzeBurnoutRisk: the cache is read but the early
\* return on a hit is commented out; with enough data it runs the load and
\* the timing analyzers, whose errors propagate, then caches its result.
analyzeBurnoutRisk(st, t, env) ==
    LET key == AnalyzerKey("burnout")
        c == getCached(st, key, 6, t, env.getFails, env.deleteFails)
    IN  IF env.n < 5
        THEN Outcome(c.store,
                     WithBurnout(createInsufficientDataResponse("burnout", env.n, t),
                                 BurnoutFields(<< >>, 0, "healthy")),
                     FALSE, TRUE, FALSE, FALSE)
        ELSE LET l == analyzeLoadPatterns(c.store, t, env)
             IN  IF l.threw
                 THEN Outcome(l.store, NoResult, TRUE, TRUE, l.fetchedActive, FALSE)
                 ELSE LET tm == analyzeTimingPatterns(l.store, t, env)
                      IN  IF tm.threw
                          THEN Outcome(tm.store, NoResult, TRUE, TRUE, TRUE, FALSE)
                          ELSE LET inDangerZone ==
                                       /\ tm.result.variant = "analysis"
                                       /\ env.inDangerZone
                                   a == WithBurnout(
                                            Analysis("burnout", env.n, t),
                                            assessBurnoutRisk(env.weekly, l.result.load,
                                                              inDangerZone))
                                   w == setCache(tm.store, key, a, 6, t, env.setFails)
                               IN  Outcome(w.store, IF w.threw THEN NoResult ELSE a,
                                           w.threw, TRUE, TRUE, ~w.threw)

(***************************************************************************)
(* Analyzer state machine: the presentation layer invokes one entry point  *)
(* (subject) again and again for one account while the clock advances.     *)
(***************************************************************************)

\* An entry a previous deployment or an earlier run left for the analyzer.
LeftOver(ns, version) ==
    LET \* The ttlHours each analyzer passes to getCached and to setCache.
        AnalyzerTtl ==
            CASE ns = "burnout" -> 6
              [] ns = "predictions" -> 1
              [] OTHER -> 24
        a == Analysis(ns, 12, 0)
    IN  CacheEntry(CASE ns = "load" -> WithLoad(a, LoadFields(3, "under"))
                     [] ns = "burnout" ->
                            WithBurnout(a, assessBurnoutRisk(CalmWeeks,
                                               LoadFields(3, "under"), FALSE))
                     [] OTHER -> a,
                   0, AnalyzerTtl, version)

InitAnalyzers ==
    LET Analyzers ==
            { "timing", "load", "strengths", "trends", "collaboration", "pitcrew",
              "burnout", "predictions" }
        \* The entry points of the presentation layer: the analyzers' handlers and
        \* the recommendation handler.
        \* The namespace an earlier run may have left an entry in.
        CachedNamespace(s) == IF s = "recommendation" THEN "timing" ELSE s
    IN
    /\ subject \in Analyzers \cup {"recommendation"}
    /\ \E S \in SUBSET {CachedNamespace(subject)},
          v \in {CACHE_VERSION, PREVIOUS_VERSION} :
          store = [k \in { buildCacheKey(AnalyzerKey(ns)) : ns \in S } |->
                      LeftOver(CachedNamespace(subject), v)]
    /\ now = 0
    /\ lastCall = NoCall
    /\ last = NoCall
    /\ written = << >>
    /\ changelogData = << >>
    /\ metricsCall = NoCall
    /\ jira = NoCall
    /\ tasks = << >>
    /\ settled = << >>
    /\ batch = NoCall
    /\ calc = NoCall

AnalyzerTick ==
    LET AnalyzerTickMs == 6 * MsPerHour
    IN
    /\ now < MaxAnalyzerTicks * AnalyzerTickMs
    /\ now' = now + AnalyzerTickMs
    /\ UNCHANGED <<store, subject, lastCall, apiVars, metricsVars, batchVars, calcVars>>

\* handlers/analyzers.ts: every handler wraps its analyzer call in try/catch
\* and answers success: true with the data, or success: false with the
\* message of the error caught.
HandlerResponse(r) ==
    IF r.threw THEN [success |-> FALSE, error |-> "error"]
    ELSE [success |-> TRUE, data |-> r.result]

\* One invocation of an analyzer's handler as its caller saw it: the outcome
\* r of the analyzer call under env and the handler's response.
CallRecord(ns, r, env) ==
    LET \* The size of the history the analyzer fetches and holds against its
        \* minimum: 84 days for burnout, 90 for the predictions, 180 for the others.
        HistoricalCount ==
            IF ns \in {"burnout", "predictions"} THEN env.n ELSE env.n180
        k == buildCacheKey(AnalyzerKey(ns))
    IN  [op |-> "analyze", analyzer |-> ns, at |-> now,
         servable |-> /\ k \in DOMAIN store
                      /\ store[k].version = CACHE_VERSION
                      /\ now - store[k].lastUpdated <= store[k].ttlHours * MsPerHour,
         getFailed |-> env.getFails,
         historical |-> HistoricalCount,
         active |-> IF r.fetchedActive THEN env.active ELSE 0 - 1,
         response |-> HandlerResponse(r),
         cached |-> IF k \in DOMAIN store THEN store[k].data ELSE NoResult,
         result |-> r.result, threw |-> r.threw,
         fetchedHistory |-> r.fetchedHistory,
         fetchedActive |-> r.fetchedActive,
         wrote |-> r.wrote]

AnalyzeTiming ==
    \E env \in EnvsHistory :
        LET r == analyzeTimingPatterns(store, now, env)
        IN  /\ subject = "timing"
            /\ store' = r.store
            /\ lastCall' = CallRecord("timing", r, env)
            /\ UNCHANGED <<now, subject, apiVars, metricsVars, batchVars, calcVars>>

AnalyzeLoad ==
    LET EnvsLoad ==
            { Env(0, n180, active, TRUE, g, d, w) :
                n180 \in IssueCounts, active \in ActiveCounts,
                g \in BOOLEAN, d \in BOOLEAN, w \in BOOLEAN }
    IN
    \E env \in EnvsLoad :
        LET r == analyzeLoadPatterns(store, now, env)
        IN  /\ subject = "load"
            /\ store' = r.store
            /\ lastCall' = CallRecord("load", r, env)
            /\ UNCHANGED <<now, subject, apiVars, metricsVars, batchVars, calcVars>>

AnalyzeStrengths ==
    \E env \in EnvsHistory :
        LET r == analyzeStrengthPatterns(store, now, env)
        IN  /\ subject = "strengths"
            /\ store' = r.store
            /\ lastCall' = CallRecord("strengths", r, env)
            /\ UNCHANGED <<now, subject, apiVars, metricsVars, batchVars, calcVars>>

AnalyzeTrends ==
    \E env \in EnvsHistory :
        LET r == analyzeTrends(store, now, env)
        IN  /\ subject = "trends"
            /\ store' = r.store
            /\ lastCall' = CallRecord("trends", r, env)
            /\ UNCHANGED <<now, subject, apiVars, metricsVars, batchVars, calcVars>>

AnalyzeCollaboration ==
    \E env \in EnvsHistory :
        LET r == analyzeCollaborationPatterns(store, now, env)
        IN  /\ subject = "collaboration"
            /\ store' = r.store
            /\ lastCall' = CallRecord("collaboration", r, env)
            /\ UNCHANGED <<now, subject, apiVars, metricsVars, batchVars, calcVars>>

AnalyzePitCrew ==
    \E env \in EnvsHistory :
        LET r == analyzePitCrewPatterns(store, now, env)
        IN  /\ subject = "pitcrew"
            /\ store' = r.store
            /\ lastCall' = CallRecord("pitcrew", r, env)
            /\ UNCHANGED <<now, subject, apiVars, metricsVars, batchVars, calcVars>>

AnalyzeBurnout ==
    \E env \in EnvsBurnout :
        LET r == analyzeBurnoutRisk(store, now, env)
        IN  /\ subject = "burnout"
            /\ store' = r.store
            /\ lastCall' = CallRecord("burnout", r, env)
            /\ UNCHANGED <<now, subject, apiVars, metricsVars, batchVars, calcVars>>

PredictSprint ==
    LET EnvsPredictions ==
            { Env(n, n, active, known, g, d, w) :
                n \in IssueCounts, active \in ActiveCounts, known \in BOOLEAN,
                g \in BOOLEAN, d \in BOOLEAN, w \in BOOLEAN }
    IN
    \E env \in EnvsPredictions :
        LET r == predictSprintCompletion(store, now, env)
        IN  /\ subject = "predictions"
            /\ store' = r.store
            /\ lastCall' = CallRecord("predictions", r, env)
            /\ UNCHANGED <<now, subject, apiVars, metricsVars, batchVars, calcVars>>

\* recommendation engine parseContext: keyword matching on the lower-cased
\* context, for the contexts of the model.
parseContext(context) ==
    CASE context = "when should I deploy" -> "timing"
      [] context = "am I at capacity" -> "workload"
      [] context = "who should review" -> "reviewer"
      [] OTHER -> "general"

Recommendations(type, basedOn) ==
    [variant |-> "recommendations", type |-> type, basedOn |-> basedOn]

\* getTimingRecommendation, getWorkloadRecommendation: an error of the
\* analyzer is caught and answered with general guidance.
RecommendationFrom(type, r) ==
    Outcome(r.store,
            IF r.threw THEN Recommendations("general", NoResult)
            ELSE Recommendations(type, r.result),
            FALSE, r.fetchedHistory, r.fetchedActive, r.wrote)

\* recommendation engine getRecommendation, for contexts classified as
\* timing, workload or reviewer.
getRecommendation(st, t, env, context) ==
    LET type == parseContext(context)
    IN  CASE type = "timing" ->
                 RecommendationFrom(type, analyzeTimingPatterns(st, t, env))
          [] type = "workload" ->
                 RecommendationFrom(type, analyzeLoadPatterns(st, t, env))
          [] OTHER ->
                 Outcome(st, Recommendations("reviewer", NoResult),
                         FALSE, FALSE, FALSE, FALSE)

\* handlers/analyzers.ts getRecommendationHandler
getRecommendationHandler(st, t, env, context) ==
    IF context = ""
    THEN [store |-> st,
          response |-> [success |-> FALSE, error |-> "Context parameter is required"]]
    ELSE LET r == getRecommendation(st, t, env, context)
         IN  [store |-> r.store, response |-> HandlerResponse(r)]

GetRecommendation ==
    LET \* Environments of a recommendation request: at most one kind of store
        \* operation fails during the call.
        EnvsRecommendation ==
            { Env(0, n180, 11, TRUE, f = "get", f = "delete", f = "set") :
                n180 \in IssueCounts, f \in {"none", "get", "delete", "set"} }
    IN
    \E env \in EnvsRecommendation,
       context \in { "", "when should I deploy", "am I at capacity", "who should review" } :
        LET h == getRecommendationHandler(store, now, env, context)
        IN  /\ subject = "recommendation"
            /\ store' = h.store
            /\ lastCall' = [op |-> "recommend", analyzer |-> "recommendation",
                            at |-> now, context |-> context,
                            response |-> h.response]
            /\ UNCHANGED <<now, subject, apiVars, metricsVars, batchVars, calcVars>>

NextAnalyzers ==
    \/ AnalyzerTick
    \/ AnalyzeTiming
    \/ AnalyzeLoad
    \/ AnalyzeStrengths
    \/ AnalyzeTrends
    \/ AnalyzeCollaboration
    \/ AnalyzePitCrew
    \/ AnalyzeBurnout
    \/ PredictSprint
    \/ GetRecommendation

SpecAnalyzers == InitAnalyzers /\ [][NextAnalyzers]_vars

\* The result handed back is the cached analysis (for the load analyzer: the
\* cached analysis with its current-load fields refreshed).
ServedFromCache ==
    /\ ~lastCall.threw
    /\ lastCall.result.variant = lastCall.cached.variant
    /\ lastCall.result.dataPoints = lastCall.cached.dataPoints
    /\ lastCall.result.lastUpdated = lastCall.cached.lastUpdated
    /\ (lastCall.analyzer # "load" => lastCall.result = lastCall.cached)

\* C6 (as stated, for calls whose cache read succeeds): an analyzer entry
\* point that finds a version-matching, unexpired entry returns it without
\* fetching the historical issues and without writing; it recomputes and
\* writes only when there is no such entry.
C6_CacheFirst ==
    (lastCall.op = "analyze" /\ lastCall.servable /\ ~lastCall.getFailed) =>
        /\ ~lastCall.fetchedHistory
        /\ ~lastCall.wrote
        /\ ServedFromCache

(***************************************************************************)
(* Metrics derivation: calculateIssueMetrics and the functions it calls.   *)
(* A changelog is a sequence of changes [timestamp, field, toValue] with   *)
(* timestamps in milliseconds.                                             *)
(***************************************************************************)
MaxHistory == 3           \* changes in one issue's changelog

MsPerDay == 1000 * 60 * 60 * 24

\* One changelog item as the issue source returns it: a status change or a
\* label change.
HistoryItems ==
    LET \* Times of day 0, day 1.5 and day 5.
        TimePoints == { h * MsPerHour : h \in {0, 36, 120} }
    IN
    [created : TimePoints, field : {"status"},
     toString : { "To Do", "In Progress", "In Development", "In Review",
                  "Done", "Resolved", "Open" }]
        \cup [created : TimePoints, field : {"labels"}, toString : {"Hotfix"}]

SeqsUpTo(S, n) == UNION { [1..m -> S] : m \in 0..n }

\* dateHelpers daysBetween: Math.floor of the difference in days.
daysBetween(start, end) == (end - start) \div MsPerDay

\* Array.prototype.sort by timestamp (stable): insert c after every change
\* that is not later than it.
RECURSIVE InsertByTimestamp(_, _)
InsertByTimestamp(sorted, c) ==
    IF sorted = << >> THEN <<c>>
    ELSE IF Head(sorted).timestamp <= c.timestamp
    THEN <<Head(sorted)>> \o InsertByTimestamp(Tail(sorted), c)
    ELSE <<c>> \o sorted

RECURSIVE SortByTimestamp(_)
SortByTimestamp(cs) ==
    IF cs = << >> THEN << >>
    ELSE InsertByTimestamp(SortByTimestamp(SubSeq(cs, 1, Len(cs) - 1)), cs[Len(cs)])

parseChangelogs(data) ==
    SortByTimestamp([i \in 1..Len(data) |->
        [timestamp |-> data[i].created, field |-> data[i].field,
         toValue |-> data[i].toString]])

IN_PROGRESS_VALUES == { "In Progress", "In Development" }

DONE_VALUES == { "Done", "Closed", "Resolved" }

REVIEW_VALUES == { "In Review", "Code Review" }

\* Array.prototype.find: the index of the first change for which the
\* predicate holds (matching: the indexes where it holds), 0 if there is none.
FirstIndex(matching) ==
    IF matching = {} THEN 0
    ELSE CHOOSE i \in matching : \A j \in matching : i <= j

DoneChanges(changelogs) ==
    { i \in 1..Len(changelogs) :
        changelogs[i].field = "status" /\ changelogs[i].toValue \in DONE_VALUES }

calculateCycleTime(changelogs) ==
    LET InProgressChanges ==
            { i \in 1..Len(changelogs) :
                changelogs[i].field = "status" /\ changelogs[i].toValue \in IN_PROGRESS_VALUES }
        inProgressChange == FirstIndex(InProgressChanges)
        doneChange == FirstIndex(DoneChanges(changelogs))
    IN  IF inProgressChange = 0 \/ doneChange = 0
        THEN 0
        ELSE daysBetween(changelogs[inProgressChange].timestamp,
                         changelogs[doneChange].timestamp)

\* Faulty variant of calculateLeadTime: measures up to the last change when
\* there is no done transition.
calculateLeadTime_ToLastChange(changelogs) ==
    IF Len(changelogs) = 0 THEN 0
    ELSE LET doneChange == FirstIndex(DoneChanges(changelogs))
         IN  daysBetween(changelogs[1].timestamp,
                         changelogs[IF doneChange = 0 THEN Len(changelogs)
                                    ELSE doneChange].timestamp)

calculateLeadTime(changelogs) ==
    IF Len(changelogs) = 0 THEN 0
    ELSE LET doneChange == FirstIndex(DoneChanges(changelogs))
         IN  IF doneChange = 0 THEN 0
             ELSE daysBetween(changelogs[1].timestamp, changelogs[doneChange].timestamp)

\* The loop shared by calculateInProgressTime and calculateReviewTime: total
\* hours of the intervals opened by a status change into opening and closed
\* by the next status change to another value.  start < 0: no open interval.
RECURSIVE IntervalHours(_, _, _, _, _)
IntervalHours(changelogs, opening, i, start, total) ==
    IF i > Len(changelogs) THEN total
    ELSE LET change == changelogs[i]
         IN  IF change.field # "status"
             THEN IntervalHours(changelogs, opening, i + 1, start, total)
             ELSE IF change.toValue \in opening
             THEN IntervalHours(changelogs, opening, i + 1, change.timestamp, total)
             ELSE IF start >= 0
             THEN IntervalHours(changelogs, opening, i + 1, 0 - 1,
                                \* hoursBetween(start, change.timestamp)
                                total + (change.timestamp - start) \div MsPerHour)
             ELSE IntervalHours(changelogs, opening, i + 1, start, total)

calculateInProgressTime(changelogs) ==
    IntervalHours(changelogs, IN_PROGRESS_VALUES, 1, 0 - 1, 0)

calculateReviewTime(changelogs) ==
    IntervalHours(changelogs, REVIEW_VALUES, 1, 0 - 1, 0)

RECURSIVE ReopenLoop(_, _, _)
ReopenLoop(changelogs, i, wasClosed) ==
    LET REOPEN_VALUES == { "Open", "Reopened", "In Progress" }
    IN
    IF i > Len(changelogs) THEN FALSE
    ELSE LET change == changelogs[i]
         IN  IF change.field # "status"
             THEN ReopenLoop(changelogs, i + 1, wasClosed)
             ELSE IF change.toValue \in DONE_VALUES
             THEN ReopenLoop(changelogs, i + 1, TRUE)
             ELSE IF wasClosed /\ change.toValue \in REOPEN_VALUES
             THEN TRUE
             ELSE ReopenLoop(changelogs, i + 1, wasClosed)

checkIfReopened(changelogs) == ReopenLoop(changelogs, 1, FALSE)

checkIfHadDefect(changelogs) ==
    LET \* toLowerCase() of the label values of the model.
        LowerCase(v) == CASE v = "Hotfix" -> "hotfix" [] OTHER -> v
        \* String.includes against the defect vocabulary, for lower-cased values.
        DEFECT_LABELS == { "bug", "defect", "regression", "hotfix" }
    IN
    \E i \in 1..Len(changelogs) :
        /\ changelogs[i].field = "labels"
        /\ LowerCase(changelogs[i].toValue) \in DEFECT_LABELS

RECURSIVE RevisionLoop(_, _, _, _)
RevisionLoop(changelogs, i, wasInReview, revisions) ==
    IF i > Len(changelogs) THEN revisions
    ELSE LET change == changelogs[i]
         IN  IF change.field # "status"
             THEN RevisionLoop(changelogs, i + 1, wasInReview, revisions)
             ELSE IF change.toValue \in REVIEW_VALUES \cup {"Testing"}
             THEN RevisionLoop(changelogs, i + 1, TRUE, revisions)
             ELSE IF wasInReview /\ change.toValue \in IN_PROGRESS_VALUES
             THEN RevisionLoop(changelogs, i + 1, FALSE, revisions + 1)
             ELSE RevisionLoop(changelogs, i + 1, wasInReview, revisions)

countRevisions(changelogs) == RevisionLoop(changelogs, 1, FALSE, 0)

IssueMetrics(issueKey, cycle, lead, inProgress, review, reopened, defect, revisions) ==
    [issueKey |-> issueKey, cycleTimeDays |-> cycle, leadTimeDays |-> lead,
     inProgressDuration |-> inProgress, reviewDuration |-> review,
     wasReopened |-> reopened, hadDefect |-> defect,
     numberOfRevisions |-> revisions]

\* Issue keys of the model: K-1, K-2, ...
IssueKey(i) == "K-" \o ToString(i)

\* calculateIssueMetrics: fetch the changelog, parse it, derive the record;
\* a failing fetch is logged and rethrown.
calculateIssueMetrics(issueKey, data, fetchFails) ==
    LET NoMetrics == [issueKey |-> ""]
    IN
    IF fetchFails
    THEN [threw |-> TRUE, metrics |-> NoMetrics]
    ELSE LET changelogs == parseChangelogs(data)
         IN  [threw |-> FALSE,
              metrics |-> IssueMetrics(issueKey,
                                       calculateCycleTime(changelogs),
                                       calculateLeadTime(changelogs),
                                       calculateInProgressTime(changelogs),
                                       calculateReviewTime(changelogs),
                                       checkIfReopened(changelogs),
                                       checkIfHadDefect(changelogs),
                                       countRevisions(changelogs))]

(***************************************************************************)
(* One calculateIssueMetrics call on a changelog drawn from the bounded    *)
(* set of changelogs.                                                      *)
(***************************************************************************)
InitMetrics ==
    /\ changelogData \in SeqsUpTo(HistoryItems, MaxHistory)
    /\ metricsCall = NoCall
    /\ store = << >>
    /\ now = 0
    /\ last = NoCall
    /\ written = << >>
    /\ subject = "none"
    /\ lastCall = NoCall
    /\ jira = NoCall
    /\ tasks = << >>
    /\ settled = << >>
    /\ batch = NoCall
    /\ calc = NoCall

CalculateIssueMetrics ==
    /\ metricsCall = NoCall
    /\ LET r == calculateIssueMetrics(IssueKey(1), changelogData, FALSE)
       IN  metricsCall' = [op |-> "metrics", fetchFailed |-> FALSE,
                           threw |-> r.threw, metrics |-> r.metrics]
    /\ UNCHANGED <<changelogData, cacheVars, apiVars, analyzerVars, batchVars, calcVars>>

CalculateIssueMetricsFetchError ==
    /\ metricsCall = NoCall
    /\ LET r == calculateIssueMetrics(IssueKey(1), changelogData, TRUE)
       IN  metricsCall' = [op |-> "metrics", fetchFailed |-> TRUE,
                           threw |-> r.threw, metrics |-> r.metrics]
    /\ UNCHANGED <<changelogData, cacheVars, apiVars, analyzerVars, batchVars, calcVars>>

NextMetrics ==
    \/ CalculateIssueMetrics
    \/ CalculateIssueMetricsFetchError

SpecMetrics == InitMetrics /\ [][NextMetrics]_vars

(***************************************************************************)
(* Properties of the metrics derivation (checked under SpecMetrics).       *)
(***************************************************************************)
MetricsDerived == metricsCall.op = "metrics" /\ ~metricsCall.threw

\* The changelog came from the issue source in timestamp order, each change
\* later than the one before it.
TimestampOrdered ==
    \A i \in 1..Len(changelogData), j \in 1..Len(changelogData) :
        i < j => changelogData[i].created < changelogData[j].created

StatusInto(i, values) ==
    /\ changelogData[i].field = "status"
    /\ changelogData[i].toString \in values

\* C7: a changelog without a status transition into Done, Closed or Resolved
\* gives cycleTimeDays = 0 and leadTimeDays = 0.
C7_NoDoneGivesZero ==
    (MetricsDerived /\ \A i \in 1..Len(changelogData) :
                          ~StatusInto(i, {"Done", "Closed", "Resolved"}))
        => /\ metricsCall.metrics.cycleTimeDays = 0
           /\ metricsCall.metrics.leadTimeDays = 0

\* C7 witness: a changelog that enters in-progress, spans more than a day
\* and never reaches a done value has been measured.
C7_Witness ==
    /\ MetricsDerived
    /\ \A i \in 1..Len(changelogData) : ~StatusInto(i, {"Done", "Closed", "Resolved"})
    /\ \E i \in 1..Len(changelogData), j \in 1..Len(changelogData) :
          /\ StatusInto(i, {"In Progress", "In Development"})
          /\ changelogData[j].created >= changelogData[i].created + MsPerDay
    /\ metricsCall.metrics.cycleTimeDays = 0
    /\ metricsCall.metrics.leadTimeDays = 0

\* The cycle time the specification defines for a timestamp-ordered
\* changelog: whole days from the first in-progress transition to the first
\* done transition after it, 0 if either is missing.
SpecifiedCycleTime ==
    LET starts == { i \in 1..Len(changelogData) :
                      StatusInto(i, {"In Progress", "In Development"}) }
    IN  IF starts = {} THEN 0
        ELSE LET first == CHOOSE i \in starts : \A k \in starts : i <= k
                 ends == { j \in 1..Len(changelogData) :
                             j > first /\ StatusInto(j, {"Done", "Closed", "Resolved"}) }
             IN  IF ends = {} THEN 0
                 ELSE LET done == CHOOSE j \in ends : \A k \in ends : j <= k
                      IN  (changelogData[done].created - changelogData[first].created)
                              \div MsPerDay

\* C8 (as stated): for a timestamp-ordered changelog cycleTimeDays is the
\* whole number of days from the first in-progress transition to the first
\* done transition after it (0 if either is absent) and is never negative.
C8_CycleTimeAsSpecified ==
    (MetricsDerived /\ TimestampOrdered) =>
        /\ metricsCall.metrics.cycleTimeDays = SpecifiedCycleTime
        /\ metricsCall.metrics.cycleTimeDays >= 0

\* C9 (as stated): wasReopened holds exactly when a status transition into a
\* done value is later followed by a status transition into Open, Reopened
\* or an in-progress value (In Progress, In Development).
C9_ReopenedIffDoneThenOpen ==
    (MetricsDerived /\ TimestampOrdered) =>
        (metricsCall.metrics.wasReopened <=>
            \E i \in 1..Len(changelogData), j \in 1..Len(changelogData) :
                /\ i < j
                /\ StatusInto(i, {"Done", "Closed", "Resolved"})
                /\ StatusInto(j, {"Open", "Reopened", "In Progress", "In Development"}))

(***************************************************************************)
(* getUserIssuesWithMetrics: fetch the user's issues, start one metrics    *)
(* task per issue, let the tasks settle in any order (Promise.all), return *)
(* the settled values in the order of the issues.                          *)
(***************************************************************************)
MaxIssues == 2            \* issues the issue source returns for one search

\* parseJiraIssue, reduced to the issue key.
parseJiraIssue(raw) == [key |-> raw.key]

\* getUserIssues: the parsed search result, or [] when the search fails.
getUserIssues(source) ==
    IF source.searchFails THEN << >>
    ELSE [i \in 1..Len(source.issues) |-> parseJiraIssue(source.issues[i])]

createDefaultMetrics(issueKey) ==
    IssueMetrics(issueKey, 0, 0, 0, 0, FALSE, FALSE, 0)

\* Faulty variant of the per-issue task: no try/catch, so the failure of one
\* task rejects the whole Promise.all.
metricsTask_Uncaught(issue, data, fetchFails) ==
    LET r == calculateIssueMetrics(issue.key, data, fetchFails)
    IN  [rejected |-> r.threw, value |-> [key |-> issue.key, metrics |-> r.metrics]]

\* The async callback mapped over the issues: the issue with its metrics,
\* or with default metrics when calculateIssueMetrics throws.
metricsTask(issue, data, fetchFails) ==
    LET r == calculateIssueMetrics(issue.key, data, fetchFails)
    IN  [rejected |-> FALSE,
         value |-> [key |-> issue.key,
                    metrics |-> IF r.threw THEN createDefaultMetrics(issue.key)
                                ELSE r.metrics]]

\* Promise.all over settled tasks: the values in the order of the input.
promiseAll(outcomes) ==
    [i \in 1..Len(outcomes) |-> outcomes[i].value]

Pending == [pending |-> TRUE]

InitBatch ==
    LET RawIssues(m) ==
            LET \* What the issue source does for the i-th issue of a search result: its
                \* key, and its changelog or the failure of the call that fetches it.
                RawIssue(i) ==
                    LET \* Changelogs the issue source holds for the issues of a batch.
                        BatchChangelogs ==
                            SeqsUpTo([created : {0, 120 * MsPerHour}, field : {"status"},
                                      toString : {"In Progress", "Done"}], 2)
                    IN
                    { [key |-> IssueKey(i), changelog |-> c, changelogFails |-> FALSE] :
                        c \in BatchChangelogs }
                      \cup { [key |-> IssueKey(i), changelog |-> << >>, changelogFails |-> TRUE] }
            IN
            { f \in [1..m -> UNION { RawIssue(i) : i \in 1..m }] :
                \A i \in 1..m : f[i].key = IssueKey(i) }
    IN
    /\ \E m \in 0..MaxIssues, searchFails \in BOOLEAN :
          \E raw \in RawIssues(m) :
              jira = [searchFails |-> searchFails, issues |-> raw]
    /\ tasks = << >>
    /\ settled = << >>
    /\ batch = [pc |-> "idle"]
    /\ changelogData = << >>
    /\ metricsCall = NoCall
    /\ store = << >>
    /\ now = 0
    /\ last = NoCall
    /\ written = << >>
    /\ subject = "none"
    /\ lastCall = NoCall
    /\ calc = NoCall

\* await getUserIssues(...) and the issues.map(async ...) that starts a task
\* per issue.
StartBatch ==
    /\ batch.pc = "idle"
    /\ LET issues == getUserIssues(jira)
       IN  /\ batch' = [pc |-> "awaiting", issues |-> issues]
           /\ tasks' = [i \in 1..Len(issues) |-> Pending]
    /\ UNCHANGED <<jira, settled, cacheVars, apiVars, analyzerVars, metricsVars, calcVars>>

\* One task finishes.
SettleTask ==
    /\ batch.pc = "awaiting"
    /\ \E i \in 1..Len(tasks) :
          /\ tasks[i] = Pending
          /\ tasks' = [tasks EXCEPT ![i] =
                          metricsTask(batch.issues[i], jira.issues[i].changelog,
                                      jira.issues[i].changelogFails)]
          /\ settled' = Append(settled, i)
    /\ UNCHANGED <<jira, batch, cacheVars, apiVars, analyzerVars, metricsVars, calcVars>>

\* Promise.all settles: it rejects as soon as a task has rejected, and the
\* call throws; else it resolves once every task has settled, and the call
\* returns the collected values.
FinishBatch ==
    /\ batch.pc = "awaiting"
    /\ \/ \E i \in 1..Len(tasks) : tasks[i] # Pending /\ tasks[i].rejected
       \/ \A i \in 1..Len(tasks) : tasks[i] # Pending
    /\ batch' = IF \E i \in 1..Len(tasks) : tasks[i] # Pending /\ tasks[i].rejected
                THEN [pc |-> "threw", issues |-> batch.issues]
                ELSE [pc |-> "returned", issues |-> batch.issues,
                      result |-> promiseAll(tasks)]
    /\ UNCHANGED <<jira, tasks, settled, cacheVars, apiVars, analyzerVars, metricsVars, calcVars>>

NextBatch ==
    \/ StartBatch
    \/ SettleTask
    \/ FinishBatch

SpecBatch == InitBatch /\ [][NextBatch]_vars

(***************************************************************************)
(* Properties of getUserIssuesWithMetrics (checked under SpecBatch).       *)
(***************************************************************************)
\* The issues the search returned to the call ([] when the search failed).
FetchedIssues == IF jira.searchFails THEN << >> ELSE jira.issues

ZeroedMetrics(key) ==
    [issueKey |-> key, cycleTimeDays |-> 0, leadTimeDays |-> 0,
     inProgressDuration |-> 0, reviewDuration |-> 0, wasReopened |-> FALSE,
     hadDefect |-> FALSE, numberOfRevisions |-> 0]

\* C10: getUserIssuesWithMetrics never fails, and what it returns has one
\* record per fetched issue in the fetched order, with zeroed metrics for
\* every issue whose changelog fetch failed and the computed metrics for
\* every other issue.
C10_BatchIsolatesFailures ==
    /\ batch.pc # "threw"
    /\ batch.pc = "returned" =>
          /\ Len(batch.result) = Len(FetchedIssues)
          /\ \A i \in 1..Len(FetchedIssues) :
                /\ batch.result[i].key = FetchedIssues[i].key
                /\ batch.result[i].metrics =
                      IF FetchedIssues[i].changelogFails
                      THEN ZeroedMetrics(FetchedIssues[i].key)
                      ELSE calculateIssueMetrics(FetchedIssues[i].key,
                                                 FetchedIssues[i].changelog,
                                                 FALSE).metrics

\* C10 witness: a batch returned in which the second task finished first,
\* the first issue's changelog fetch failed and the second issue kept a
\* cycle time of 5 days.
C10_Witness ==
    /\ batch.pc = "returned"
    /\ Len(batch.result) >= 2
    /\ settled[1] = 2
    /\ FetchedIssues[1].changelogFails
    /\ batch.result[1].metrics = ZeroedMetrics(IssueKey(1))
    /\ batch.result[2].key = IssueKey(2)
    /\ batch.result[2].metrics.cycleTimeDays = 5

(***************************************************************************)
(* Load analyzer calculations on given inputs: determineLoadStatus on a    *)
(* current load and calculateConcurrentLoad on a fetched history.          *)
(***************************************************************************)
MaxLoad == 15             \* largest current load given to determineLoadStatus

MaxLoadIssues == 3        \* historical issues given to calculateConcurrentLoad

\* resolved of an issue that is not resolved (undefined).
Unresolved == 0 - 1

\* issue.resolved ? issue.resolved.getTime() : new Date().getTime()
EndOf(issue, t) == IF issue.resolved # Unresolved THEN issue.resolved ELSE t

\* load.ts calculateConcurrentLoad
calculateConcurrentLoad(issue, allIssues, t) ==
    LET issueStart == issue.created
        issueEnd == EndOf(issue, t)
        concurrent ==
            Cardinality({ j \in 1..Len(allIssues) :
                /\ allIssues[j].key # issue.key
                /\ allIssues[j].created <= issueEnd
                /\ EndOf(allIssues[j], t) >= issueStart })
    IN  IF 1 >= concurrent THEN 1 ELSE concurrent

InitLoad ==
    LET LoadInput(issues, currentLoad) ==
            [op |-> "input", issues |-> issues, currentLoad |-> currentLoad,
             value |-> "none"]
        LoadHistories ==
            LET LoadIssue(i, sh) ==
                    [key |-> IssueKey(i), created |-> sh.created * MsPerDay,
                     resolved |-> IF sh.resolved = Unresolved THEN Unresolved
                                  ELSE sh.resolved * MsPerDay]
                \* Historical issues: created on day 0, 2 or 4, resolved on a later day 1, 3
                \* or 5 or not at all.
                LoadIssueShapes ==
                    { sh \in [created : {0, 2, 4}, resolved : {1, 3, 5, Unresolved}] :
                        sh.resolved = Unresolved \/ sh.resolved > sh.created }
            IN
            { [i \in 1..Len(shs) |-> LoadIssue(i, shs[i])] :
                shs \in SeqsUpTo(LoadIssueShapes, MaxLoadIssues) }
    IN
    /\ \E issues \in LoadHistories, currentLoad \in 0..MaxLoad :
          calc = LoadInput(issues, currentLoad)
    /\ now = 6 * MsPerDay
    /\ store = << >>
    /\ last = NoCall
    /\ written = << >>
    /\ subject = "none"
    /\ lastCall = NoCall
    /\ changelogData = << >>
    /\ metricsCall = NoCall
    /\ jira = NoCall
    /\ tasks = << >>
    /\ settled = << >>
    /\ batch = NoCall

DetermineLoadStatus ==
    /\ calc.op # "determineLoadStatus"
    /\ calc' = [calc EXCEPT !.op = "determineLoadStatus",
                            !.value = determineLoadStatus(calc.currentLoad)]
    /\ UNCHANGED <<cacheVars, apiVars, analyzerVars, metricsVars, batchVars>>

CalculateConcurrentLoad ==
    LET \* load.ts lines 36-39: the concurrent load of every fetched issue.
        issuesWithLoad(issues, t) ==
            [i \in 1..Len(issues) |-> calculateConcurrentLoad(issues[i], issues, t)]
    IN
    /\ calc.op # "calculateConcurrentLoad"
    /\ calc' = [calc EXCEPT !.op = "calculateConcurrentLoad",
                            !.value = issuesWithLoad(calc.issues, now)]
    /\ UNCHANGED <<cacheVars, apiVars, analyzerVars, metricsVars, batchVars>>

NextLoad ==
    \/ DetermineLoadStatus
    \/ CalculateConcurrentLoad

SpecLoad == InitLoad /\ [][NextLoad]_vars

(***************************************************************************)
(* Claims about the load analyzer calculations.                            *)
(***************************************************************************)
\* C11: determineLoadStatus maps every non-negative integer load to exactly
\* one zone: under for 0..4, optimal for 5..9, over for 10..12, critical
\* for 13 and above.
C11_LoadZonesPartition ==
    calc.op = "determineLoadStatus" =>
        /\ calc.value \in {"under", "optimal", "over", "critical"}
        /\ calc.value = "under" <=> calc.currentLoad \in 0..4
        /\ calc.value = "optimal" <=> calc.currentLoad \in 5..9
        /\ calc.value = "over" <=> calc.currentLoad \in 10..12
        /\ calc.value = "critical" <=> calc.currentLoad >= 13

\* A load of 13 has been classified, as critical.
C11_Witness ==
    /\ calc.op = "determineLoadStatus"
    /\ calc.currentLoad = 13
    /\ calc.value = "critical"

\* The active intervals of the issues at i and j overlap.
Overlapping(issues, i, j) ==
    /\ issues[i].created <= EndOf(issues[j], now)
    /\ issues[j].created <= EndOf(issues[i], now)

\* C12 (as stated): for three historical items whose active intervals each
\* overlap the intervals of the other two, calculateConcurrentLoad yields a
\* concurrent load of 3 for each of the three items.
C12_ThreeOverlappingGiveThree ==
    ( /\ calc.op = "calculateConcurrentLoad"
      /\ Len(calc.issues) = 3
      /\ \A i, j \in 1..3 : Overlapping(calc.issues, i, j) ) =>
        \A i \in 1..3 : calc.value[i] = 3

(***************************************************************************)
(* Burnout analyzer calculations on given inputs: assessBurnoutRisk on     *)
(* weekly patterns, a load analysis and a danger-zone flag, and            *)
(* determinRiskLevel on a score.                                           *)
(***************************************************************************)
MaxScore == 100           \* largest score given to determinRiskLevel

InitBurnout ==
    LET BurnoutInput(weeklyData, currentLoad, inDangerZone, score) ==
            [op |-> "input", weeklyData |-> weeklyData,
             load |-> LoadFields(currentLoad, determineLoadStatus(currentLoad)),
             inDangerZone |-> inDangerZone, score |-> score, value |-> "none"]
        WeeklyPatterns ==
            LET VelocityHalves ==
                    { <<0, 0, 0, 0>>, <<3, 3, 3, 3>>, <<6, 6, 6, 6>>, <<10, 10, 10, 10>>,
                      <<10, 10, 4, 2>>, <<10, 10, 5, 5>> }
                \* Weekly series of the last 8 weeks, as analyzeWeeklyPatterns derives them
                \* from the fetched issues: k weeks with a full overload estimate, and the
                \* completed issues per week for the first and the last 4 weeks.
                OverloadSeries == { [w \in 1..8 |-> IF w <= k THEN 100 ELSE 0] : k \in 0..8 }
            IN
            { [weeklyOverload |-> o, velocityTrend |-> older \o recent] :
                o \in OverloadSeries, older \in VelocityHalves, recent \in VelocityHalves }
    IN
    /\ \/ \E w \in WeeklyPatterns, l \in 0..MaxLoad, d \in BOOLEAN :
             calc = BurnoutInput(w, l, d, 0)
       \/ \E score \in 0..MaxScore : calc = BurnoutInput(CalmWeeks, 0, FALSE, score)
    /\ now = 0
    /\ store = << >>
    /\ last = NoCall
    /\ written = << >>
    /\ subject = "none"
    /\ lastCall = NoCall
    /\ changelogData = << >>
    /\ metricsCall = NoCall
    /\ jira = NoCall
    /\ tasks = << >>
    /\ settled = << >>
    /\ batch = NoCall

AssessBurnoutRisk ==
    /\ calc.op # "assessBurnoutRisk"
    /\ calc' = [calc EXCEPT !.op = "assessBurnoutRisk",
                   !.value = assessBurnoutRisk(calc.weeklyData, calc.load,
                                               calc.inDangerZone)]
    /\ UNCHANGED <<cacheVars, apiVars, analyzerVars, metricsVars, batchVars>>

DeterminRiskLevel ==
    /\ calc.op # "determinRiskLevel"
    /\ calc' = [calc EXCEPT !.op = "determinRiskLevel",
                            !.value = determinRiskLevel(calc.score)]
    /\ UNCHANGED <<cacheVars, apiVars, analyzerVars, metricsVars, batchVars>>

NextBurnout ==
    \/ AssessBurnoutRisk
    \/ DeterminRiskLevel

SpecBurnout == InitBurnout /\ [][NextBurnout]_vars

(***************************************************************************)
(* Claims about the burnout score.                                         *)
(***************************************************************************)
\* The risk level the thresholds give to a score.
LevelOfScore(score, level) ==
    /\ level = "healthy" <=> score < 30
    /\ level = "warning" <=> score \in 30..49
    /\ level = "high" <=> score \in 50..69
    /\ level = "critical" <=> score >= 70

C13_CurrentLoadIsLive ==
    (lastCall.op = "analyze" /\ lastCall.analyzer = "load" /\ ~lastCall.threw) =>
        /\ lastCall.fetchedActive
        /\ lastCall.result.load.currentLoad = lastCall.active

\* C15 (as stated): with fewer than 5 sample items analyzeBurnoutRisk returns
\* a result with burnoutScore 0 and confidence 'low' that does not carry the
\* 'healthy' risk level.
C15_InsufficientIsNotHealthy ==
    ( /\ lastCall.op = "analyze"
      /\ lastCall.analyzer = "burnout"
      /\ lastCall.historical < 5 ) =>
        /\ ~lastCall.threw
        /\ lastCall.result.burnoutScore = 0
        /\ lastCall.result.confidence = "low"
        /\ lastCall.result.riskLevel # "healthy"

\* The call returned the insufficient-data variant.
InsufficientVariant ==
    /\ ~lastCall.threw
    /\ lastCall.result.variant = "insufficient"
    /\ lastCall.result.confidence = "low"

\* C17 (as stated): for a subject with 4 historical items every analyzer
\* returns its insufficient-data variant, with confidence 'low'.
C17_FourItemsInsufficientAsStated ==
    (lastCall.op = "analyze" /\ lastCall.historical = 4) => InsufficientVariant

\* C17 (amended): for a subject with 4 historical items every analyzer that
\* does not answer from an unexpired cached analysis, and so fetches the
\* history, returns its insufficient-data variant, with confidence 'low'.
C17_FourItemsInsufficient ==
    ( /\ lastCall.op = "analyze"
      /\ lastCall.historical = 4
      /\ lastCall.fetchedHistory ) => InsufficientVariant

\* An analyzer with a minimum of 10 fetched a history of 4 items and
\* returned the insufficient-data variant with its 4 data points.
C17_Witness ==
    /\ lastCall.op = "analyze"
    /\ lastCall.analyzer = "timing"
    /\ lastCall.historical = 4
    /\ lastCall.fetchedHistory
    /\ InsufficientVariant
    /\ lastCall.result.dataPoints = 4

\* C18 (as stated): a response with success=false is produced only when the
\* recommendation handler is invoked without a context parameter.
C18_OnlyMissingContextFails ==
    (lastCall.op \in {"analyze", "recommend"} /\ ~lastCall.response.success) =>
        /\ lastCall.op = "recommend"
        /\ lastCall.context = ""

\* The step ends with the record of an analyzer call that returned the
\* insufficient-data variant.
ReturnedInsufficient ==
    /\ lastCall'.op = "analyze"
    /\ ~lastCall'.threw
    /\ lastCall'.result.variant = "insufficient"

\* C26 (as stated): whenever an analyzer returns its insufficient-data
\* variant the store is left unchanged by that call.
C26_InsufficientLeavesStoreAsStated ==
    [][ReturnedInsufficient => store' = store]_vars

\* C26 (amended): a call that returns the insufficient-data variant writes
\* nothing: every entry in the store after the call was there, unchanged,
\* before it, and an entry the call removed had another cache version.
C26_InsufficientNotWritten ==
    [][ReturnedInsufficient =>
          /\ ~lastCall'.wrote
          /\ \A k \in DOMAIN store' : k \in DOMAIN store /\ store'[k] = store[k]
          /\ \A k \in (DOMAIN store) \ (DOMAIN store') :
                 store[k].version # CACHE_VERSION]_vars

\* C26 witness: the load analyzer fetched a history of 4 issues, returned
\* the insufficient-data variant and left the store without an entry.
C26_Witness ==
    /\ lastCall.op = "analyze"
    /\ lastCall.analyzer = "load"
    /\ lastCall.historical = 4
    /\ lastCall.fetchedHistory
    /\ InsufficientVariant
    /\ ~lastCall.wrote
    /\ store = << >>

(***************************************************************************)
(* Sprint predictions: the Monte Carlo simulation of the base prediction   *)
(* and of the what-if scenarios.  Math.random is an input of every run:    *)
(* draws[i][ticket] is the index of the cycle time sampled for the ticket  *)
(* in iteration i.                                                         *)
(***************************************************************************)
WhatIfIterations == 1     \* iterations of a what-if run (500 in the code)

MaxActiveTickets == 2     \* active tickets of the sprint

\* const daysRemaining = 10
DaysRemaining == 10

\* The indexes Math.floor(Math.random() * length) can give, for every
\* iteration and ticket of one run.
Draws(ticketCount, historicalCycleTimes, iterations) ==
    [1..iterations -> [1..ticketCount -> 1..Len(historicalCycleTimes)]]

\* The inner loop: tickets completed in one iteration before the days run
\* out.
RECURSIVE CompletedInIteration(_, _, _, _, _, _)
CompletedInIteration(ticketCount, historicalCycleTimes, daysAvailable, draw, ticket, daysUsed) ==
    IF ticket > ticketCount THEN 0
    ELSE LET used == daysUsed + historicalCycleTimes[draw[ticket]]
         IN  IF used <= daysAvailable
             THEN 1 + CompletedInIteration(ticketCount, historicalCycleTimes,
                                           daysAvailable, draw, ticket + 1, used)
             ELSE 0

\* predictions.ts runMonteCarloSimulation.  completionProbability is
\* complete / iterations; expectedCompleted is Math.round of the average.
runMonteCarloSimulation(ticketCount, historicalCycleTimes, daysAvailable, iterations, draws) ==
    LET \* results[k] after results.sort((a, b) => a - b), k counted from 0.
        SortedAt(results, k) ==
            CHOOSE v \in { results[i] : i \in 1..Len(results) } :
                /\ Cardinality({ i \in 1..Len(results) : results[i] < v }) <= k
                /\ Cardinality({ i \in 1..Len(results) : results[i] <= v }) > k
        results == [i \in 1..iterations |->
                       CompletedInIteration(ticketCount, historicalCycleTimes,
                                            daysAvailable, draws[i], 1, 0)]
    IN  [ticketCount |-> ticketCount, iterations |-> iterations,
         complete |-> Cardinality({ i \in 1..iterations : results[i] = ticketCount }),
         expectedCompleted |-> (2 * SumSeq(results) + iterations) \div (2 * iterations),
         confidenceInterval |->
             [low |-> SortedAt(results, iterations \div 10),
              high |-> SortedAt(results, (iterations * 9) \div 10)]]

InitSimulation ==
    LET SimulationInput(activeTickets, cycleTimes) ==
            LET NotRun == [ticketCount |-> 0, iterations |-> 0]
            IN
            [op |-> "input", activeTickets |-> activeTickets, cycleTimes |-> cycleTimes,
             simResults |-> NotRun, addOneResult |-> NotRun, addTwoResult |-> NotRun,
             removeOneResult |-> NotRun]
    IN
    /\ \E activeTickets \in 0..MaxActiveTickets,
          cycleTimes \in { <<3>>, <<4, 7>>, <<5, 20>> } :
          calc = SimulationInput(activeTickets, cycleTimes)
    /\ now = 0
    /\ store = << >>
    /\ last = NoCall
    /\ written = << >>
    /\ subject = "none"
    /\ lastCall = NoCall
    /\ changelogData = << >>
    /\ metricsCall = NoCall
    /\ jira = NoCall
    /\ tasks = << >>
    /\ settled = << >>
    /\ batch = NoCall

\* predictSprintCompletion, lines 58-63.
RunSimulation ==
    LET \* The base prediction runs twice the iterations of a what-if scenario
        \* (1000 against 500).
        BaseIterations == 2 * WhatIfIterations
    IN
    /\ calc.op = "input"
    /\ \E draws \in Draws(calc.activeTickets, calc.cycleTimes, BaseIterations) :
          calc' = [calc EXCEPT !.op = "simulated",
                      !.simResults =
                          runMonteCarloSimulation(calc.activeTickets, calc.cycleTimes,
                                                  DaysRemaining, BaseIterations, draws)]
    /\ UNCHANGED <<cacheVars, apiVars, analyzerVars, metricsVars, batchVars>>

\* generateWhatIfScenarios, scenario 1.
AddOneScenario ==
    /\ calc.op = "simulated"
    /\ \E draws \in Draws(calc.activeTickets + 1, calc.cycleTimes, WhatIfIterations) :
          calc' = [calc EXCEPT !.op = "addOne",
                      !.addOneResult =
                          runMonteCarloSimulation(calc.activeTickets + 1, calc.cycleTimes,
                                                  DaysRemaining, WhatIfIterations, draws)]
    /\ UNCHANGED <<cacheVars, apiVars, analyzerVars, metricsVars, batchVars>>

\* generateWhatIfScenarios, scenario 2.
AddTwoScenario ==
    /\ calc.op = "addOne"
    /\ \E draws \in Draws(calc.activeTickets + 2, calc.cycleTimes, WhatIfIterations) :
          calc' = [calc EXCEPT !.op = "addTwo",
                      !.addTwoResult =
                          runMonteCarloSimulation(calc.activeTickets + 2, calc.cycleTimes,
                                                  DaysRemaining, WhatIfIterations, draws)]
    /\ UNCHANGED <<cacheVars, apiVars, analyzerVars, metricsVars, batchVars>>

\* generateWhatIfScenarios, scenario 3 (only with more than one ticket).
RemoveOneScenario ==
    /\ calc.op = "addTwo"
    /\ calc.activeTickets > 1
    /\ \E draws \in Draws(calc.activeTickets - 1, calc.cycleTimes, WhatIfIterations) :
          calc' = [calc EXCEPT !.op = "removeOne",
                      !.removeOneResult =
                          runMonteCarloSimulation(calc.activeTickets - 1, calc.cycleTimes,
                                                  DaysRemaining, WhatIfIterations, draws)]
    /\ UNCHANGED <<cacheVars, apiVars, analyzerVars, metricsVars, batchVars>>

NextSimulation ==
    \/ RunSimulation
    \/ AddOneScenario
    \/ AddTwoScenario
    \/ RemoveOneScenario

SpecSimulation == InitSimulation /\ [][NextSimulation]_vars

(***************************************************************************)
(* Claims about the Monte Carlo simulation.                                *)
(***************************************************************************)
\* The completion probability of run a is not greater than that of run b.
NotMoreLikely(a, b) == a.complete * b.iterations <= b.complete * a.iterations

\* C16 (as stated): with the cycle-time samples and the day budget fixed, the
\* completion probability reported for N+1 active items is never greater than
\* the one reported for N active items, and the what-if 'add' scenarios never
\* report a higher probability than the base prediction.
C16_MoreTicketsNeverMoreLikely ==
    /\ calc.op \in {"addOne", "addTwo", "removeOne"} =>
          NotMoreLikely(calc.addOneResult, calc.simResults)
    /\ calc.op \in {"addTwo", "removeOne"} =>
          /\ NotMoreLikely(calc.addTwoResult, calc.simResults)
          /\ NotMoreLikely(calc.addTwoResult, calc.addOneResult)
    /\ calc.op = "removeOne" =>
          NotMoreLikely(calc.simResults, calc.removeOneResult)

(***************************************************************************)
(* Claims about the durations and the revision count (checked under        *)
(* SpecMetrics).                                                           *)
(***************************************************************************)
\* Total hours of the maximal intervals in which the status of the changelog
\* held one of values: an interval opens at a status transition into values
\* when none is open, and is closed by the first status transition to a
\* value outside; an interval never closed adds nothing.  start < 0: no open
\* interval.
RECURSIVE MaximalIntervalHours(_, _, _, _)
MaximalIntervalHours(values, i, start, total) ==
    IF i > Len(changelogData) THEN total
    ELSE IF changelogData[i].field # "status"
    THEN MaximalIntervalHours(values, i + 1, start, total)
    ELSE IF changelogData[i].toString \in values
    THEN MaximalIntervalHours(values, i + 1,
                              IF start < 0 THEN changelogData[i].created ELSE start,
                              total)
    ELSE IF start >= 0
    THEN MaximalIntervalHours(values, i + 1, 0 - 1,
                              total + (changelogData[i].created - start) \div MsPerHour)
    ELSE MaximalIntervalHours(values, i + 1, start, total)

\* C19 (as stated): for a timestamp-ordered changelog inProgressDuration and
\* reviewDuration are the sums of the lengths of the maximal intervals in
\* which the status held an in-progress, respectively in-review, value.
C19_DurationsAreMaximalIntervals ==
    (MetricsDerived /\ TimestampOrdered) =>
        /\ metricsCall.metrics.inProgressDuration =
              MaximalIntervalHours({"In Progress", "In Development"}, 1, 0 - 1, 0)
        /\ metricsCall.metrics.reviewDuration =
              MaximalIntervalHours({"In Review", "Code Review"}, 1, 0 - 1, 0)

\* The status transitions of the changelog in timestamp order.
StatusTransitions ==
    SelectSeq(parseChangelogs(changelogData), LAMBDA c : c.field = "status")

\* The status transitions that go from an in-review-equivalent value
\* directly to an in-progress-equivalent value.
DirectReturns ==
    { k \in 2..Len(StatusTransitions) :
        /\ StatusTransitions[k - 1].toValue \in {"In Review", "Code Review", "Testing"}
        /\ StatusTransitions[k].toValue \in {"In Progress", "In Development"} }

\* C20 (as stated): numberOfRevisions is the number of status transitions
\* from an in-review-equivalent value directly back to an in-progress
\* value; a return that passes through another status first is not counted.
C20_RevisionsAreDirectReturns ==
    MetricsDerived => metricsCall.metrics.numberOfRevisions = Cardinality(DirectReturns)

(***************************************************************************)
(* Calculations of the collaboration, strength, timing and prediction      *)
(* analyzers on given inputs.  A number that need not be whole (a mean, a  *)
(* ratio) is the fraction [num, den] with den > 0.                         *)
(***************************************************************************)
MaxShared == 12           \* issues shared with one teammate
MaxQueue == 4             \* active tickets given to identifyAtRiskTickets

\* utils/calculations.ts average
average(numbers) ==
    IF Len(numbers) = 0 THEN [num |-> 0, den |-> 1]
    ELSE [num |-> SumSeq(numbers), den |-> Len(numbers)]

\* a > b for fractions
Exceeds(a, b) == a.num * b.den > b.num * a.den

\* Faulty variant of calculateChemistryScores: ten shared issues already
\* earn the larger frequency boost.
calculateChemistryScores_FrequentFromTen(collaborationData, allCycleTimes) ==
    LET soloCycleTimes == SelectSeq(allCycleTimes, LAMBDA c : c > 0)
        soloAvg == IF Len(soloCycleTimes) > 0 THEN average(soloCycleTimes)
                   ELSE [num |-> 10, den |-> 1]
    IN  [accountId \in DOMAIN collaborationData |->
            LET data == collaborationData[accountId]
                collaborationAvg == IF Len(data.cycleTimes) > 0
                                    THEN average(data.cycleTimes) ELSE soloAvg
                speedMultiplier ==
                    IF soloAvg.num > 0
                    THEN [num |-> soloAvg.num * collaborationAvg.den,
                          den |-> soloAvg.den * collaborationAvg.num]
                    ELSE [num |-> 1, den |-> 1]
                speed == IF Exceeds(speedMultiplier, [num |-> 12, den |-> 10]) THEN 30
                         ELSE IF Exceeds(speedMultiplier, [num |-> 1, den |-> 1]) THEN 15
                         ELSE IF Exceeds([num |-> 8, den |-> 10], speedMultiplier)
                         THEN 0 - 20
                         ELSE 0
                frequency == IF data.sharedIssues >= 10 THEN 20
                             ELSE IF data.sharedIssues > 5 THEN 10
                             ELSE 0
                sum == 50 + speed + frequency
                score == IF sum > 100 THEN 100 ELSE IF sum < 0 THEN 0 ELSE sum
            IN  [teammate |-> accountId, score |-> score,
                 speedMultiplier |-> speedMultiplier,
                 collaborations |-> data.sharedIssues,
                 rating |-> IF score >= 80 THEN "excellent"
                            ELSE IF score >= 60 THEN "good"
                            ELSE IF score >= 40 THEN "neutral"
                            ELSE "needs-work"]]

\* calculateChemistryScores: one score per teammate of collaborationData
\* (sharedIssues: the number of shared issues; cycleTimes: their known cycle
\* times), against the mean of the user's known cycle times.
calculateChemistryScores(collaborationData, allCycleTimes) ==
    LET soloCycleTimes == SelectSeq(allCycleTimes, LAMBDA c : c > 0)
        soloAvg == IF Len(soloCycleTimes) > 0 THEN average(soloCycleTimes)
                   ELSE [num |-> 10, den |-> 1]
    IN  [accountId \in DOMAIN collaborationData |->
            LET data == collaborationData[accountId]
                collaborationAvg == IF Len(data.cycleTimes) > 0
                                    THEN average(data.cycleTimes) ELSE soloAvg
                speedMultiplier ==
                    IF soloAvg.num > 0
                    THEN [num |-> soloAvg.num * collaborationAvg.den,
                          den |-> soloAvg.den * collaborationAvg.num]
                    ELSE [num |-> 1, den |-> 1]
                speed == IF Exceeds(speedMultiplier, [num |-> 12, den |-> 10]) THEN 30
                         ELSE IF Exceeds(speedMultiplier, [num |-> 1, den |-> 1]) THEN 15
                         ELSE IF Exceeds([num |-> 8, den |-> 10], speedMultiplier)
                         THEN 0 - 20
                         ELSE 0
                frequency == IF data.sharedIssues > 10 THEN 20
                             ELSE IF data.sharedIssues > 5 THEN 10
                             ELSE 0
                sum == 50 + speed + frequency
                score == IF sum > 100 THEN 100 ELSE IF sum < 0 THEN 0 ELSE sum
            IN  [teammate |-> accountId, score |-> score,
                 speedMultiplier |-> speedMultiplier,
                 collaborations |-> data.sharedIssues,
                 rating |-> IF score >= 80 THEN "excellent"
                            ELSE IF score >= 60 THEN "good"
                            ELSE IF score >= 40 THEN "neutral"
                            ELSE "needs-work"]]

\* utils/calculations.ts calculateDelta, in percent
calculateDelta(userValue, teamValue) ==
    IF teamValue.num = 0 THEN [num |-> 0, den |-> 1]
    ELSE [num |-> 100 * (userValue.num * teamValue.den - teamValue.num * userValue.den),
          den |-> userValue.den * teamValue.num]

\* analyzeByTicketType.  typeGroups[type]: the cycleTimeDays of the user's
\* issues of the type (0: unknown); team: the outcome of getTeamIssues, for
\* every type the number of team issues and their resolved - created days
\* (0: not resolved).  The quality score does not depend on cycle times and
\* is left out.
analyzeByTicketType(typeGroups, compareToTeam, team) ==
    [type \in DOMAIN typeGroups |->
        LET issues == typeGroups[type]
            cycleTimes == SelectSeq(issues, LAMBDA c : c > 0)
            userAvg == IF Len(cycleTimes) > 0 THEN average(cycleTimes)
                       ELSE [num |-> 0, den |-> 1]
            validTeamCycleTimes == SelectSeq(team.cycleTimes, LAMBDA t : t > 0)
            compared == /\ compareToTeam /\ Len(issues) > 0
                        /\ ~team.fails
                        /\ team.count > 5
                        /\ Len(validTeamCycleTimes) > 0
            teamAvg == IF compared THEN average(validTeamCycleTimes) ELSE userAvg
        IN  [type |-> type, userAvg |-> userAvg,
             teamAvg |-> IF compareToTeam THEN teamAvg ELSE [num |-> 0, den |-> 0],
             delta |-> IF compared THEN calculateDelta(userAvg, teamAvg)
                       ELSE [num |-> 0, den |-> 1],
             count |-> Len(issues)]]

\* generateStrengthRecommendations, the part on ticket types.  order: the
\* types in the order of Object.values; the sort by delta is stable.
generateStrengthRecommendations(ticketTypes, order) ==
    LET types == SelectSeq(order, LAMBDA t : ticketTypes[t].count >= 3)
        Before(i, j) ==
            \/ Exceeds(ticketTypes[types[j]].delta, ticketTypes[types[i]].delta)
            \/ /\ ~Exceeds(ticketTypes[types[i]].delta, ticketTypes[types[j]].delta)
               /\ i < j
        Rank(i) == 1 + Cardinality({ j \in 1..Len(types) : j # i /\ Before(j, i) })
        sorted == [k \in 1..Len(types) |->
                      types[CHOOSE i \in 1..Len(types) : Rank(i) = k]]
    IN  [excelAt |->
            IF Len(sorted) > 0
               /\ Exceeds([num |-> 0 - 10, den |-> 1], ticketTypes[sorted[1]].delta)
            THEN {sorted[1]} ELSE {},
         pairOn |->
            { sorted[k] : k \in { k \in 1..Len(sorted) :
                /\ k > Len(sorted) - 2
                /\ Exceeds(ticketTypes[sorted[k]].delta, [num |-> 15, den |-> 1]) } }]

\* The hours of the set hours in the order of sort() by qualityScore,
\* descending or ascending; the sort is stable and the hours come in the
\* order of the day.
OrderByQuality(hours, hourlyActivity, descending) ==
    LET Before(a, b) ==
            IF hourlyActivity[a].qualityScore # hourlyActivity[b].qualityScore
            THEN IF descending
                 THEN hourlyActivity[a].qualityScore > hourlyActivity[b].qualityScore
                 ELSE hourlyActivity[a].qualityScore < hourlyActivity[b].qualityScore
            ELSE a < b
        Rank(a) == 1 + Cardinality({ b \in hours : b # a /\ Before(b, a) })
    IN  [k \in 1..Cardinality(hours) |-> CHOOSE a \in hours : Rank(a) = k]

\* timing.ts findPeakWindow.  hourlyActivity[hour], hour in 0..23, holds the
\* volume and the quality score of the hour.
findPeakWindow(hourlyActivity) ==
    LET significantHours == { h \in DOMAIN hourlyActivity : hourlyActivity[h].volume >= 5 }
        sortedByQuality == OrderByQuality(significantHours, hourlyActivity, TRUE)
        bestHours == SubSeq(sortedByQuality, 1,
                            IF Len(sortedByQuality) < 3 THEN Len(sortedByQuality) ELSE 3)
        bestHourNumbers == { bestHours[k] : k \in 1..Len(bestHours) }
        avgQuality == average([k \in 1..24 |-> hourlyActivity[k - 1].qualityScore])
        peakQuality == average([k \in 1..Len(bestHours) |->
                                   hourlyActivity[bestHours[k]].qualityScore])
    IN  IF significantHours = {}
        THEN [defined |-> TRUE, start |-> 10, end |-> 12,
              qualityMultiplier |-> [num |-> 1, den |-> 1]]
        ELSE [defined |-> TRUE,
              start |-> CHOOSE h \in bestHourNumbers : \A g \in bestHourNumbers : h <= g,
              end |-> (CHOOSE h \in bestHourNumbers : \A g \in bestHourNumbers : h >= g) + 1,
              qualityMultiplier |-> [num |-> peakQuality.num * avgQuality.den,
                                     den |-> peakQuality.den * avgQuality.num]]

\* timing.ts findDangerZone; [defined |-> FALSE] is undefined.
findDangerZone(hourlyActivity) ==
    LET significantHours == { h \in DOMAIN hourlyActivity : hourlyActivity[h].volume >= 5 }
        sortedByQuality == OrderByQuality(significantHours, hourlyActivity, FALSE)
        worstHours == SubSeq(sortedByQuality, 1,
                             IF Len(sortedByQuality) < 2 THEN Len(sortedByQuality) ELSE 2)
        worstHourNumbers == { worstHours[k] : k \in 1..Len(worstHours) }
        avgQuality == average([k \in 1..Len(sortedByQuality) |->
                                  hourlyActivity[sortedByQuality[k]].qualityScore])
        worstQuality == average([k \in 1..Len(worstHours) |->
                                    hourlyActivity[worstHours[k]].qualityScore])
    IN  IF significantHours = {}
        THEN [defined |-> FALSE]
        ELSE IF ~Exceeds([num |-> 8 * avgQuality.num, den |-> 10 * avgQuality.den],
                         worstQuality)
        THEN [defined |-> FALSE]
        ELSE [defined |-> TRUE,
              start |-> CHOOSE h \in worstHourNumbers : \A g \in worstHourNumbers : h <= g,
              end |-> (CHOOSE h \in worstHourNumbers : \A g \in worstHourNumbers : h >= g) + 1,
              revertMultiplier |-> [num |-> avgQuality.num * worstQuality.den,
                                    den |-> avgQuality.den * worstQuality.num]]

\* dateHelpers getCurrentTimeZone(currentHour, peakStart, peakEnd, dangerStart):
\* dangerZone carries the optional dangerStart.
getCurrentTimeZone(currentHour, peakStart, peakEnd, dangerZone) ==
    IF currentHour >= peakStart /\ currentHour < peakEnd THEN "peak"
    ELSE IF dangerZone.defined /\ currentHour >= dangerZone.start THEN "danger"
    ELSE "normal"

\* detectRiskFactors, factor 4: the current hour is taken to be in the
\* danger zone.
inDangerZone(currentHour, dangerZone) ==
    /\ dangerZone.defined
    /\ currentHour >= dangerZone.start /\ currentHour <= dangerZone.end

\* getTimingRecommendation: the message chosen for the current hour.
getTimingRecommendation(currentHour, timing) ==
    IF currentHour >= timing.peakWindow.start /\ currentHour < timing.peakWindow.end
    THEN "Great time to work on this"
    ELSE IF timing.dangerZone.defined /\ currentHour >= timing.dangerZone.start
    THEN "Consider waiting until tomorrow"
    ELSE "Acceptable time to work"

\* Faulty variant of identifyAtRiskTickets: the estimate of a ticket leaves
\* out the ticket's own cycle time.
identifyAtRiskTickets_ToStart(activeTickets, historicalCycleTimes, daysRemaining) ==
    LET avgCycleTime == average(historicalCycleTimes)
        \* numerators over the denominator avgCycleTime.den
        estimatedDaysToComplete(index) == index * avgCycleTime.num
        overage(index) ==
            estimatedDaysToComplete(index) - daysRemaining * avgCycleTime.den
        riskLevel(index) ==
            IF overage(index) > avgCycleTime.num * 2 THEN "critical"
            ELSE IF overage(index) > avgCycleTime.num THEN "high"
            ELSE IF 2 * overage(index) > avgCycleTime.num THEN "medium"
            ELSE "low"
        flagged == SelectSeq([k \in 1..Len(activeTickets) |-> k - 1],
                             LAMBDA index : estimatedDaysToComplete(index)
                                                > daysRemaining * avgCycleTime.den)
    IN  [k \in 1..Len(flagged) |->
            [issueKey |-> activeTickets[flagged[k] + 1],
             riskLevel |-> riskLevel(flagged[k]),
             position |-> flagged[k] + 1]]

\* predictions.ts identifyAtRiskTickets; activeTickets is the sequence of the
\* tickets' keys.  position is "Queue position" of the risk's factors.
identifyAtRiskTickets(activeTickets, historicalCycleTimes, daysRemaining) ==
    LET avgCycleTime == average(historicalCycleTimes)
        \* numerators over the denominator avgCycleTime.den
        estimatedDaysToComplete(index) == index * avgCycleTime.num + avgCycleTime.num
        overage(index) ==
            estimatedDaysToComplete(index) - daysRemaining * avgCycleTime.den
        riskLevel(index) ==
            IF overage(index) > avgCycleTime.num * 2 THEN "critical"
            ELSE IF overage(index) > avgCycleTime.num THEN "high"
            ELSE IF 2 * overage(index) > avgCycleTime.num THEN "medium"
            ELSE "low"
        flagged == SelectSeq([k \in 1..Len(activeTickets) |-> k - 1],
                             LAMBDA index : estimatedDaysToComplete(index)
                                                > daysRemaining * avgCycleTime.den)
    IN  [k \in 1..Len(flagged) |->
            [issueKey |-> activeTickets[flagged[k] + 1],
             riskLevel |-> riskLevel(flagged[k]),
             position |-> flagged[k] + 1]]

\* The inputs of one calculation.
\*   chemistry: the issues shared with teammate u2 and the user's cycle
\*     times (0: unknown);
\*   strengths: the user's Bug and Story issues and the team's issues;
\*   cacheKey: two cache keys, with account identifiers and suffixes that
\*     may contain ':';
\*   windows: the activity of the 24 hours of the day, of which hours 9, 12,
\*     15 and 20 may have a significant volume;
\*   currentHour: the hour of the day and a timing analysis;
\*   atRisk: the active tickets, the historical cycle times and the days
\*     that remain.
CalculationInputs ==
    { [op |-> "input", fn |-> "chemistry",
       collaborationData |-> [a \in {"u2"} |-> [sharedIssues |-> n, cycleTimes |-> c]],
       allCycleTimes |-> all, value |-> "none"] :
         n \in 1..MaxShared, c \in SeqsUpTo({6, 7, 10, 12}, 1),
         all \in SeqsUpTo({0, 7, 10, 12}, 2) }
    \cup
    { [op |-> "input", fn |-> "strengths",
       typeGroups |-> [t \in {"Bug", "Story"} |-> IF t = "Bug" THEN bug ELSE story],
       compareToTeam |-> c,
       team |-> [fails |-> f, count |-> n, cycleTimes |-> tc], value |-> "none"] :
         bug \in [1..3 -> {0, 4, 10}], story \in {<<4>>, <<10, 10, 10>>},
         c \in BOOLEAN, f \in BOOLEAN, n \in {5, 6}, tc \in {<<0>>, <<5, 0>>} }
    \cup
    { [op |-> "input", fn |-> "cacheKey", keys |-> <<k1, k2>>, value |-> "none"] :
         k1, k2 \in [namespace : {"timing", "load"}, accountId : {"u1", "u1:load"},
                     suffix : {"", "timing"}] }
    \cup
    { [op |-> "input", fn |-> "windows",
       hourlyActivity |-> [h \in 0..23 |-> IF h \in DOMAIN active THEN active[h]
                                           ELSE [volume |-> 0, qualityScore |-> 5]],
       value |-> "none"] :
         active \in [{9, 12, 15, 20} ->
                        {[volume |-> 0, qualityScore |-> 5]}
                            \cup [volume : {5}, qualityScore : {2, 8, 10}]] }
    \cup
    { [op |-> "input", fn |-> "currentHour", currentHour |-> h,
       timing |-> [peakWindow |-> [start |-> 9, end |-> p], dangerZone |-> d],
       value |-> "none"] :
         h \in 0..23, p \in {11, 12},
         d \in { [defined |-> FALSE], [defined |-> TRUE, start |-> 14, end |-> 16],
                 [defined |-> TRUE, start |-> 10, end |-> 12] } }
    \cup
    { [op |-> "input", fn |-> "atRisk",
       activeTickets |-> [k \in 1..n |-> k],
       historicalCycleTimes |-> c, daysRemaining |-> d, value |-> "none"] :
         n \in 0..MaxQueue,
         c \in {<<>>} \cup { <<a>> : a \in {1, 3, 4} }
                 \cup { <<a, b>> : a, b \in {1, 3, 4} },
         d \in {0, 2, 5, 10} }

InitCalculations ==
    /\ calc \in CalculationInputs
    /\ now = 0
    /\ store = << >>
    /\ last = NoCall
    /\ written = << >>
    /\ subject = "none"
    /\ lastCall = NoCall
    /\ changelogData = << >>
    /\ metricsCall = NoCall
    /\ jira = NoCall
    /\ tasks = << >>
    /\ settled = << >>
    /\ batch = NoCall

CalculateChemistryScores ==
    /\ calc.op = "input" /\ calc.fn = "chemistry"
    /\ calc' = [calc EXCEPT !.op = "done",
                   !.value = calculateChemistryScores(calc.collaborationData,
                                                      calc.allCycleTimes)]
    /\ UNCHANGED <<cacheVars, apiVars, analyzerVars, metricsVars, batchVars>>

AnalyzeByTicketType ==
    /\ calc.op = "input" /\ calc.fn = "strengths"
    /\ LET ticketTypes == analyzeByTicketType(calc.typeGroups, calc.compareToTeam,
                                              calc.team)
       IN  calc' = [calc EXCEPT !.op = "done",
                       !.value = [ticketTypes |-> ticketTypes,
                                  recommendations |->
                                      generateStrengthRecommendations(
                                          ticketTypes, <<"Bug", "Story">>)]]
    /\ UNCHANGED <<cacheVars, apiVars, analyzerVars, metricsVars, batchVars>>

BuildCacheKey ==
    /\ calc.op = "input" /\ calc.fn = "cacheKey"
    /\ calc' = [calc EXCEPT !.op = "done",
                   !.value = <<buildCacheKey(calc.keys[1]), buildCacheKey(calc.keys[2])>>]
    /\ UNCHANGED <<cacheVars, apiVars, analyzerVars, metricsVars, batchVars>>

\* analyzeTimingPatterns, lines 43-44.
FindWindows ==
    /\ calc.op = "input" /\ calc.fn = "windows"
    /\ calc' = [calc EXCEPT !.op = "done",
                   !.value = [peakWindow |-> findPeakWindow(calc.hourlyActivity),
                              dangerZone |-> findDangerZone(calc.hourlyActivity)]]
    /\ UNCHANGED <<cacheVars, apiVars, analyzerVars, metricsVars, batchVars>>

\* The three places that classify new Date().getHours() against a timing
\* analysis: getCurrentStatus, detectRiskFactors and getTimingRecommendation.
ClassifyCurrentHour ==
    /\ calc.op = "input" /\ calc.fn = "currentHour"
    /\ calc' = [calc EXCEPT !.op = "done",
                   !.value =
                       [currentTimeZone |->
                            getCurrentTimeZone(calc.currentHour,
                                               calc.timing.peakWindow.start,
                                               calc.timing.peakWindow.end,
                                               calc.timing.dangerZone),
                        dangerHours |-> inDangerZone(calc.currentHour,
                                                     calc.timing.dangerZone),
                        recommendation |->
                            getTimingRecommendation(calc.currentHour, calc.timing)]]
    /\ UNCHANGED <<cacheVars, apiVars, analyzerVars, metricsVars, batchVars>>

\* predictSprintCompletion, line 66.
IdentifyAtRiskTickets ==
    /\ calc.op = "input" /\ calc.fn = "atRisk"
    /\ calc' = [calc EXCEPT !.op = "done",
                   !.value = identifyAtRiskTickets(calc.activeTickets,
                                                   calc.historicalCycleTimes,
                                                   calc.daysRemaining)]
    /\ UNCHANGED <<cacheVars, apiVars, analyzerVars, metricsVars, batchVars>>

NextCalculations ==
    \/ CalculateChemistryScores
    \/ AnalyzeByTicketType
    \/ BuildCacheKey
    \/ FindWindows
    \/ ClassifyCurrentHour
    \/ IdentifyAtRiskTickets

SpecCalculations == InitCalculations /\ [][NextCalculations]_vars

(***************************************************************************)
(* Claims about these calculations (checked under SpecCalculations).       *)
(***************************************************************************)
Calculated(fn) == calc.op = "done" /\ calc.fn = fn

\* C21: every teammate's chemistry score is 50 plus the speed adjustment
\* (+30 above a multiplier of 1.2, +15 above 1.0, -20 below 0.8) plus the
\* frequency adjustment (+20 above 10 shared items, +10 above 5), clamped to
\* 0..100; the rating is excellent from 80, good from 60, neutral from 40,
\* needs-work below; 12 shared items with solo mean 10 and shared mean 7
\* give score 100, excellent.
C21_ChemistryScore ==
    Calculated("chemistry") =>
        \A a \in DOMAIN calc.value :
            LET r == calc.value[a]
                m == r.speedMultiplier
                speed == IF 10 * m.num > 12 * m.den THEN 30
                         ELSE IF m.num > m.den THEN 15
                         ELSE IF 10 * m.num < 8 * m.den THEN 0 - 20 ELSE 0
                frequency == IF r.collaborations > 10 THEN 20
                             ELSE IF r.collaborations > 5 THEN 10 ELSE 0
                sum == 50 + speed + frequency
            IN  /\ r.score = IF sum > 100 THEN 100 ELSE IF sum < 0 THEN 0 ELSE sum
                /\ r.collaborations = calc.collaborationData[a].sharedIssues
                /\ r.rating = "excellent" <=> r.score >= 80
                /\ r.rating = "good" <=> r.score \in 60..79
                /\ r.rating = "neutral" <=> r.score \in 40..59
                /\ r.rating = "needs-work" <=> r.score < 40
                /\ (/\ r.collaborations = 12
                    /\ calc.allCycleTimes = <<10>>
                    /\ calc.collaborationData[a].cycleTimes = <<7>>)
                       => r.score = 100 /\ r.rating = "excellent"

\* C21 witness: the scenario of 12 shared items, solo mean 10 days and
\* shared mean 7 days has been scored 100, excellent.
C21_Witness ==
    /\ Calculated("chemistry")
    /\ calc.collaborationData["u2"] = [sharedIssues |-> 12, cycleTimes |-> <<7>>]
    /\ calc.allCycleTimes = <<10>>
    /\ calc.value["u2"].score = 100
    /\ calc.value["u2"].rating = "excellent"
    /\ calc.value["u2"].speedMultiplier = [num |-> 10, den |-> 7]

\* C22 (as stated): a ticket-type group in which no item has a known
\* (non-zero) cycle time is treated as unknown: its delta against the team
\* baseline is 0 and it is never recommended as a strength.
C22_UnknownIsNotInstant ==
    Calculated("strengths") =>
        \A t \in DOMAIN calc.typeGroups :
            (\A i \in 1..Len(calc.typeGroups[t]) : calc.typeGroups[t][i] = 0)
                => /\ calc.value.ticketTypes[t].delta.num = 0
                   /\ t \notin calc.value.recommendations.excelAt

\* C25 (as stated): buildCacheKey is injective: two cache keys that differ
\* in accountId, namespace or suffix never map to the same storage key,
\* also when an account identifier contains ':'.
C25_CacheKeyInjective ==
    Calculated("cacheKey") =>
        (calc.keys[1] # calc.keys[2] => calc.value[1] # calc.value[2])

\* C28 (as stated): whenever the timing analysis reports both a peak window
\* and a danger zone, the hour ranges [start, end) are disjoint.
C28_PeakAndDangerDisjoint ==
    (Calculated("windows") /\ calc.value.dangerZone.defined) =>
        \/ calc.value.peakWindow.end <= calc.value.dangerZone.start
        \/ calc.value.dangerZone.end <= calc.value.peakWindow.start

\* C29 (as stated): the current hour h is treated as being in the danger
\* zone only when dangerZone.start <= h < dangerZone.end, by
\* getCurrentTimeZone, by the burnout danger-hour factor and by the timing
\* recommendation alike.
C29_DangerOnlyInsideZone ==
    ( /\ Calculated("currentHour")
      /\ \/ calc.value.currentTimeZone = "danger"
         \/ calc.value.dangerHours
         \/ calc.value.recommendation = "Consider waiting until tomorrow" ) =>
        /\ calc.timing.dangerZone.defined
        /\ calc.timing.dangerZone.start <= calc.currentHour
        /\ calc.currentHour < calc.timing.dangerZone.end

\* The severity of a risk level: low < medium < high < critical.
Severity(riskLevel) ==
    CASE riskLevel = "low" -> 1 [] riskLevel = "medium" -> 2
      [] riskLevel = "high" -> 3 [] riskLevel = "critical" -> 4

\* C30: identifyAtRiskTickets flags the ticket at queue position p (1-based)
\* iff p times the mean historical cycle time exceeds the remaining days;
\* the flagged tickets are a suffix of the queue, and a later flagged
\* ticket has a risk level at least as severe as an earlier one.
C30_AtRiskIsSuffix ==
    Calculated("atRisk") =>
        LET mean == average(calc.historicalCycleTimes)
            risks == calc.value
            Risk(p) == { risks[k] : k \in { j \in 1..Len(risks) : risks[j].issueKey = p } }
        IN  /\ \A p \in 1..Len(calc.activeTickets) :
                   /\ Risk(p) # {} <=> p * mean.num > calc.daysRemaining * mean.den
                   /\ Cardinality(Risk(p)) <= 1
            /\ \A p, q \in 1..Len(calc.activeTickets) :
                   (p < q /\ Risk(p) # {}) =>
                       /\ Risk(q) # {}
                       /\ \A r \in Risk(p), t \in Risk(q) :
                              Severity(r.riskLevel) <= Severity(t.riskLevel)

\* C30 witness: some but not all tickets of the queue are flagged, with
\* more than one risk level.
C30_Witness ==
    /\ Calculated("atRisk")
    /\ Len(calc.value) > 1
    /\ Len(calc.value) < Len(calc.activeTickets)
    /\ calc.value[1].riskLevel = "low"
    /\ calc.value[Len(calc.value)].riskLevel \in {"high", "critical"}

(***************************************************************************)
(* Concurrent cache calls on one key.  Every await of getCached and        *)
(* setCache is a point where another call may run: getCached is the step   *)
(* up to the return of storage.get followed, on a version mismatch, by the *)
(* step of storage.delete; setCache is the step of storage.set.            *)
(* calc.pc[c] is the position of call c, calc.ret[c] what it returned.     *)
(***************************************************************************)
\* The calls in flight: two getCached and two setCache calls, the latter
\* with payloads 1 and 2.
Getters == {"get1", "get2"}

Setters == {"set1", "set2"}

SharedKey == [namespace |-> "timing", accountId |-> "u1", suffix |-> ""]

InitConcurrent ==
    /\ \E S \in SUBSET {buildCacheKey(SharedKey)},
          v \in {CACHE_VERSION, PREVIOUS_VERSION} :
          store = [k \in S |-> CacheEntry(0, 0, 1, v)]
    /\ calc = [op |-> "concurrent",
               pc |-> [c \in Getters \cup Setters |-> "start"],
               ret |-> [c \in Getters |-> NullRet]]
    /\ now = 0
    /\ last = NoCall
    /\ written = << >>
    /\ subject = "none"
    /\ lastCall = NoCall
    /\ changelogData = << >>
    /\ metricsCall = NoCall
    /\ jira = NoCall
    /\ tasks = << >>
    /\ settled = << >>
    /\ batch = NoCall

\* getCached up to the return of storage.get (cache.ts 14-22): the call ends
\* here unless the entry it read has another version.
GetCachedRead ==
    \E c \in Getters :
        /\ calc.pc[c] = "start"
        /\ IF StaleVersionRead(store, buildCacheKey(SharedKey), FALSE)
           THEN calc' = [calc EXCEPT !.pc[c] = "delete"]
           ELSE calc' = [calc EXCEPT !.pc[c] = "done",
                            !.ret[c] = getCached(store, SharedKey, 1, now,
                                                 FALSE, FALSE).ret]
        /\ UNCHANGED <<cacheVars, apiVars, analyzerVars, metricsVars, batchVars>>

\* getCached after the mismatch: storage.delete(cacheKey), return null
\* (cache.ts 23-25).
GetCachedDelete ==
    \E c \in Getters :
        /\ calc.pc[c] = "delete"
        /\ store' = StorageDelete(store, buildCacheKey(SharedKey))
        /\ calc' = [calc EXCEPT !.pc[c] = "done"]
        /\ UNCHANGED <<now, last, written, apiVars, analyzerVars, metricsVars, batchVars>>

\* setCache: storage.set of a fresh entry (cache.ts 53-62).
SetCacheWrite ==
    \E c \in Setters :
        /\ calc.pc[c] = "start"
        /\ store' = setCache(store, SharedKey, IF c = "set1" THEN 1 ELSE 2, 1, now,
                             FALSE).store
        /\ calc' = [calc EXCEPT !.pc[c] = "done"]
        /\ UNCHANGED <<now, last, written, apiVars, analyzerVars, metricsVars, batchVars>>

NextConcurrent ==
    \/ GetCachedRead
    \/ GetCachedDelete
    \/ SetCacheWrite

SpecConcurrent == InitConcurrent /\ [][NextConcurrent]_vars

\* C23 (as stated): under any interleaving of concurrent getCached and
\* setCache calls on the same key, getCached's delete removes only the
\* mismatched entry it read: a version-matching entry written by setCache is
\* never removed, and after the calls finish a completed fresh write is
\* still readable.
C23_FreshWriteSurvives ==
    (\E c \in Setters : calc.pc[c] = "done")
        => /\ buildCacheKey(SharedKey) \in DOMAIN store
           /\ store[buildCacheKey(SharedKey)].version = CACHE_VERSION

(***************************************************************************)
(* The analyzers' optional parameters.  timeRange and months choose the    *)
(* history that is fetched (90 days: env.n issues, 180 days: env.n180),    *)
(* compareToTeam whether the team baseline is computed.                    *)
(* calc.computedFor[ns] holds the parameter value of the call that wrote   *)
(* the analyzer's cache entry; calc.analyzer, calc.parameter and           *)
(* calc.fromCache describe the last request.                               *)
(***************************************************************************)
\* The request's record: r is the outcome of the analyzer call.
Requested(ns, parameter, r) ==
    [op |-> "request", analyzer |-> ns, parameter |-> parameter,
     fromCache |-> ~r.threw /\ ~r.fetchedHistory,
     computedFor |-> IF r.wrote THEN [calc.computedFor EXCEPT ![ns] = {parameter}]
                     ELSE calc.computedFor]

InitParameters ==
    /\ calc = [op |-> "none",
               computedFor |-> [ns \in {"timing", "trends", "strengths"} |-> {}]]
    /\ store = << >>
    /\ now = 0
    /\ last = NoCall
    /\ written = << >>
    /\ subject = "none"
    /\ lastCall = NoCall
    /\ changelogData = << >>
    /\ metricsCall = NoCall
    /\ jira = NoCall
    /\ tasks = << >>
    /\ settled = << >>
    /\ batch = NoCall

\* analyzeTimingPatterns(accountId, timeRange)
AnalyzeTimingRange ==
    \E env \in EnvsHistory, n \in IssueCounts, timeRange \in {"3months", "6months"} :
        LET r == ReadThrough("timing", 24, 10,
                             IF timeRange = "3months" THEN n ELSE env.n180,
                             store, now, env)
        IN  /\ store' = r.store
            /\ calc' = Requested("timing", timeRange, r)
            /\ UNCHANGED <<now, apiVars, analyzerVars, metricsVars, batchVars>>

\* analyzeTrends(accountId, months)
AnalyzeTrendsMonths ==
    \E env \in EnvsHistory, n \in IssueCounts, months \in {3, 6} :
        LET r == ReadThrough("trends", 24, 10, IF months = 3 THEN n ELSE env.n180,
                             store, now, env)
        IN  /\ store' = r.store
            /\ calc' = Requested("trends", months, r)
            /\ UNCHANGED <<now, apiVars, analyzerVars, metricsVars, batchVars>>

\* analyzeStrengthPatterns(accountId, compareToTeam)
AnalyzeStrengthsCompared ==
    \E env \in EnvsHistory, compareToTeam \in BOOLEAN :
        LET r == analyzeStrengthPatterns(store, now, env)
        IN  /\ store' = r.store
            /\ calc' = Requested("strengths", compareToTeam, r)
            /\ UNCHANGED <<now, apiVars, analyzerVars, metricsVars, batchVars>>

NextParameters ==
    \/ AnalyzeTimingRange
    \/ AnalyzeTrendsMonths
    \/ AnalyzeStrengthsCompared

SpecParameters == InitParameters /\ [][NextParameters]_vars

\* C24 (as stated): a result served from the cache by analyzeTimingPatterns,
\* analyzeTrends or analyzeStrengthPatterns was computed with the same
\* optional parameter value (timeRange, months, compareToTeam) as the
\* request that receives it.
C24_CachedResultMatchesParameter ==
    (calc.op = "request" /\ calc.fromCache)
        => calc.computedFor[calc.analyzer] = {calc.parameter}

(***************************************************************************)
(* getCurrentStatus: the active tickets and, each in its own try/catch,    *)
(* the timing, load, burnout, pit crew and prediction analyzers, whose     *)
(* cache writes it leaves in the store.  Its own cache read and write are  *)
(* disabled in the code.  The time zone of the current hour is calculated  *)
(* by getCurrentTimeZone (see the calculations above).                     *)
(***************************************************************************)
getCurrentStatus(st, t, env) ==
    LET activeTickets == env.active
        timing == analyzeTimingPatterns(st, t, env)
        loadAnalysis == analyzeLoadPatterns(timing.store, t, env)
        burnout == analyzeBurnoutRisk(loadAnalysis.store, t, env)
        pitCrew == analyzePitCrewPatterns(burnout.store, t, env)
        prediction == predictSprintCompletion(pitCrew.store, t, env)
    IN  [store |-> prediction.store,
         status |->
            [activeTickets |-> activeTickets,
             loadStatus |-> IF loadAnalysis.threw THEN "optimal"
                            ELSE loadAnalysis.result.load.currentStatus,
             loadData |-> IF loadAnalysis.threw THEN NoResult
                          ELSE [currentLoad |-> loadAnalysis.result.load.currentLoad],
             burnoutData |-> IF burnout.threw THEN NoResult
                             ELSE [riskLevel |-> burnout.result.riskLevel],
             sprintProgress |-> [completed |-> 0, remaining |-> activeTickets]]]

InitStatus ==
    /\ subject = "status"
    /\ \E S \in SUBSET {buildCacheKey(AnalyzerKey("load"))},
          v \in {CACHE_VERSION, PREVIOUS_VERSION} :
          store = [k \in S |-> LeftOver("load", v)]
    /\ now = 0
    /\ lastCall = NoCall
    /\ last = NoCall
    /\ written = << >>
    /\ changelogData = << >>
    /\ metricsCall = NoCall
    /\ jira = NoCall
    /\ tasks = << >>
    /\ settled = << >>
    /\ batch = NoCall
    /\ calc = NoCall

\* The history is short (4 issues) or sufficient (12); storage.set may fail.
GetCurrentStatus ==
    \E env \in { e \in EnvsBurnout : /\ e.n = e.n180 /\ e.n \in {4, 12}
                                     /\ ~e.getFails /\ ~e.deleteFails } :
        LET r == getCurrentStatus(store, now, env)
        IN  /\ store' = r.store
            /\ lastCall' = [op |-> "status", historical |-> env.n180,
                            status |-> r.status]
            /\ UNCHANGED <<now, subject, apiVars, metricsVars, batchVars, calcVars>>

NextStatus ==
    \/ AnalyzerTick
    \/ GetCurrentStatus

SpecStatus == InitStatus /\ [][NextStatus]_vars

\* C27 (as stated): in every CurrentStatus, loadStatus is the zone (under
\* below 5, optimal 5..9, over 10..12, critical from 13) of the activeTickets
\* count reported in the same status.
C27_LoadStatusIsZoneOfActive ==
    lastCall.op = "status" =>
        LET s == lastCall.status
        IN  /\ s.loadStatus = "under" <=> s.activeTickets < 5
            /\ s.loadStatus = "optimal" <=> s.activeTickets \in 5..9
            /\ s.loadStatus = "over" <=> s.activeTickets \in 10..12
            /\ s.loadStatus = "critical" <=> s.activeTickets >= 13

====
